---- MODULE Spec2Model ----
(***************************************************************************)
(* PubCrawl: label tools (compare_labels, get_uspi, get_smpc), the eMC      *)
(* SmPC segmenter parseSmpcSections, and the batched eMC lookups of         *)
(* search_by_indication.                                                    *)
(*                                                                          *)
(* Strings are TLC strings; JavaScript's String methods (includes,          *)
(* toLowerCase, trim, replace, RegExp match) are operators computed         *)
(* character by character with Len / SubSeq / \o.                            *)
(***************************************************************************)
EXTENDS Integers, Sequences, FiniteSets, TLC

(***************************************************************************)
(* Bounds of the model.                                                     *)
(***************************************************************************)
\* longest eMC page (number of sibling elements) the segmenter is run on
MaxElements == 3
\* longest page / SPL document fetched by the tool handlers
MaxToolElements == 2
\* largest number of drug names handed to batchEmcLookups
MaxNames == 7

(***************************************************************************)
(* JavaScript string primitives.                                            *)
(***************************************************************************)
UpperChars == "ABCDEFGHIJKLMNOPQRSTUVWXYZ"
LowerChars == "abcdefghijklmnopqrstuvwxyz"
Digits == {"0", "1", "2", "3", "4", "5", "6", "7", "8", "9"}
Whitespace == {" ", "\n", "\t"}

CharAt(s, i) == SubSeq(s, i, i)

\* String.prototype.includes
Includes(s, t) ==
  \E i \in 0..(Len(s) - Len(t)) : SubSeq(s, i + 1, i + Len(t)) = t

LowerChar(c) ==
  IF \E i \in 1..26 : CharAt(UpperChars, i) = c
  THEN CharAt(LowerChars, CHOOSE i \in 1..26 : CharAt(UpperChars, i) = c)
  ELSE c

RECURSIVE LowerRange(_, _, _)
LowerRange(s, lo, hi) ==
  IF lo > hi THEN ""
  ELSE IF lo = hi THEN LowerChar(CharAt(s, lo))
  ELSE LowerRange(s, lo, (lo + hi) \div 2) \o LowerRange(s, (lo + hi) \div 2 + 1, hi)

\* String.prototype.toLowerCase
ToLowerCase(s) == LowerRange(s, 1, Len(s))

\* first index >= i of s whose character is not in set cs (Len(s)+1 if none)
RunEnd(s, i, cs) ==
  CHOOSE j \in i..(Len(s) + 1) :
    /\ j = Len(s) + 1 \/ CharAt(s, j) \notin cs
    /\ \A k \in i..(j - 1) : CharAt(s, k) \in cs

TrimStart(s) == SubSeq(s, RunEnd(s, 1, Whitespace), Len(s))

TrimEnd(s) ==
  LET last == CHOOSE j \in 0..Len(s) :
                /\ j = 0 \/ CharAt(s, j) \notin Whitespace
                /\ \A k \in (j + 1)..Len(s) : CharAt(s, k) \in Whitespace
  IN SubSeq(s, 1, last)

\* String.prototype.trim
Trim(s) == TrimEnd(TrimStart(s))

\* String.prototype.replace(pattern: string, ""): removes the first occurrence
RemoveFirst(s, t) ==
  IF ~Includes(s, t) THEN s
  ELSE LET i == CHOOSE k \in 0..(Len(s) - Len(t)) :
                  /\ SubSeq(s, k + 1, k + Len(t)) = t
                  /\ \A j \in 0..(k - 1) : SubSeq(s, j + 1, j + Len(t)) # t
       IN SubSeq(s, 1, i) \o SubSeq(s, i + Len(t) + 1, Len(s))

\* text.match(/^(\d+\.?\d*)\s+(.+)/): [ok, code, title], title being match[2].trim()
MatchHeading(text) ==
  LET a == RunEnd(text, 1, Digits)
      b == IF a <= Len(text) /\ CharAt(text, a) = "." THEN a + 1 ELSE a
      c == RunEnd(text, b, Digits)
      d == RunEnd(text, c, Whitespace)
      e == RunEnd(text, d, {CharAt(text, k) : k \in 1..Len(text)} \ {"\n"})
  IN IF a > 1 /\ d > c /\ e > d
     THEN [ok |-> TRUE, code |-> SubSeq(text, 1, c - 1), title |-> Trim(SubSeq(text, d, e - 1))]
     ELSE [ok |-> FALSE, code |-> "", title |-> ""]

(***************************************************************************)
(* Optional arguments (string[] | undefined).                               *)
(***************************************************************************)
Undefined == [defined |-> FALSE, list |-> <<>>]
Some(l) == [defined |-> TRUE, list |-> l]

Indices(n) == [i \in 1..n |-> i]

(***************************************************************************)
(* eMC pages.  A page is the ordered list of sibling elements of the SmPC   *)
(* container.  An element carries its tag, whether its id/class is matched  *)
(* by the structural selector ([id*='SECTION'], [id*='section'],            *)
(* .sectionHeading), its number of child elements (children that hold no    *)
(* heading text of their own) and its text().                               *)
(***************************************************************************)
HeadingTags == {"h2", "h3", "h4"}
InlineTags == {"a", "span", "strong", "em", "b", "i"}
BlockTags == {"p", "div", "tr", "h1", "h2", "h3", "h4", "h5", "h6"}

ElementPool ==
  { [tag |-> "h2",   marked |-> FALSE, kids |-> 0, text |-> "4.1 Therapeutic indications"],
    [tag |-> "h3",   marked |-> FALSE, kids |-> 0, text |-> "4.3 Contraindications"],
    [tag |-> "div",  marked |-> TRUE,  kids |-> 1, text |-> "4.4 Special warnings and precautions for use"],
    [tag |-> "span", marked |-> FALSE, kids |-> 0, text |-> "4.5 Interaction with other medicinal products"],
    [tag |-> "b",    marked |-> FALSE, kids |-> 0, text |-> "12 tablets per pack"],
    [tag |-> "div",  marked |-> FALSE, kids |-> 2, text |-> "4.3 Contraindications"],
    [tag |-> "p",    marked |-> FALSE, kids |-> 0, text |-> " Take with food "] }

PagesUpTo(n) == UNION { [1..k -> ElementPool] : k \in 0..n }

\* the pages compare_labels is run on: structural headings and paragraphs
ComparePagesUpTo(n) ==
  UNION { [1..k -> {e \in ElementPool : e.tag \in {"h2", "h3", "p"}}] : k \in 0..n }

SMPC_SECTION_NAMES ==
  ("4.1" :> "Therapeutic indications") @@
  ("4.2" :> "Posology and method of administration") @@
  ("4.3" :> "Contraindications") @@
  ("4.4" :> "Special warnings and precautions for use") @@
  ("4.5" :> "Interaction with other medicinal products") @@
  ("4.6" :> "Fertility, pregnancy and lactation") @@
  ("4.7" :> "Effects on ability to drive and use machines") @@
  ("4.8" :> "Undesirable effects") @@
  ("4.9" :> "Overdose") @@
  ("5.1" :> "Pharmacodynamic properties") @@
  ("5.2" :> "Pharmacokinetic properties") @@
  ("5.3" :> "Preclinical safety data") @@
  ("6.1" :> "List of excipients") @@
  ("6.2" :> "Incompatibilities") @@
  ("6.3" :> "Shelf life") @@
  ("6.4" :> "Special precautions for storage") @@
  ("6.5" :> "Nature and contents of container") @@
  ("6.6" :> "Special precautions for disposal")

RECURSIVE CollapseRange(_, _, _)
\* the characters lo..hi of s, without each newline that two newlines follow
CollapseRange(s, lo, hi) ==
  IF lo > hi THEN ""
  ELSE IF lo = hi
       THEN (IF lo + 2 <= Len(s) /\ SubSeq(s, lo, lo + 2) = "\n\n\n" THEN "" ELSE CharAt(s, lo))
  ELSE CollapseRange(s, lo, (lo + hi) \div 2) \o CollapseRange(s, (lo + hi) \div 2 + 1, hi)

\* .replace(/\n{3,}/g, "\n\n")
CollapseNewlines(s) == CollapseRange(s, 1, Len(s))

RECURSIVE NodesText(_)
NodesText(nodes) ==
  IF Len(nodes) = 0 THEN ""
  ELSE nodes[1].text \o (IF nodes[1].tag \in BlockTags THEN "\n" ELSE "")
         \o NodesText(SubSeq(nodes, 2, Len(nodes)))

\* htmlToText of the markup of a list of nodes
htmlToText(nodes) == Trim(CollapseNewlines(NodesText(nodes)))

HeadingOf(el) == MatchHeading(Trim(el.text))

Boundary(html, i) ==
  [code |-> HeadingOf(html[i]).code, title |-> HeadingOf(html[i]).title, element |-> i]

\* Strategy 1: structural selector, any leading number
Strategy1(html) ==
  LET hits == SelectSeq(Indices(Len(html)),
                LAMBDA i : /\ (html[i].marked \/ html[i].tag \in HeadingTags)
                           /\ HeadingOf(html[i]).ok)
  IN [k \in 1..Len(hits) |-> Boundary(html, hits[k])]

\* Strategy 2: every leaf-ish element, recognized section codes only
Strategy2(html) ==
  LET hits == SelectSeq(Indices(Len(html)),
                LAMBDA i : /\ ~(html[i].kids > 0 /\ html[i].tag \notin InlineTags)
                           /\ HeadingOf(html[i]).ok
                           /\ HeadingOf(html[i]).code \in DOMAIN SMPC_SECTION_NAMES)
  IN [k \in 1..Len(hits) |-> Boundary(html, hits[k])]

\* the guard dropped: strategy 2 runs whatever strategy 1 found
Strategy2Always(sectionElements) == TRUE

\* if (sectionElements.length === 0)
Strategy2Needed(sectionElements) == Len(sectionElements) = 0

RECURSIVE SiblingText(_, _, _)
\* content += htmlToText(nodeHtml) + "\n" for the siblings from..to
SiblingText(html, from, to) ==
  IF from > to THEN ""
  ELSE htmlToText(<<html[from]>>) \o "\n" \o SiblingText(html, from + 1, to)

\* one pass of the loop "Extract content between consecutive headings"
SectionAt(html, sectionElements, i) ==
  LET current == sectionElements[i]
      stop == IF i < Len(sectionElements) /\ sectionElements[i + 1].element > current.element
              THEN sectionElements[i + 1].element
              ELSE Len(html) + 1
      siblings == SiblingText(html, current.element + 1, stop - 1)
      content == IF Trim(siblings) = ""
                 THEN Trim(RemoveFirst(htmlToText(html), Trim(html[current.element].text)))
                 ELSE siblings
  IN [code |-> current.code, title |-> current.title, content |-> Trim(content)]

ExtractContent(html, sectionElements) ==
  [i \in 1..Len(sectionElements) |-> SectionAt(html, sectionElements, i)]

\* the predicate of requestedSections.some(...) for one request
SectionMatches(s, req) ==
  LET lower == Trim(ToLowerCase(req))
  IN IF s.code = lower \/ s.code = req THEN TRUE
     ELSE IF Includes(ToLowerCase(s.title), lower) THEN TRUE
     ELSE IF Includes(lower, "indication") THEN s.code = "4.1"
     ELSE IF Includes(lower, "dosage") \/ Includes(lower, "dosing") \/ Includes(lower, "posology")
          THEN s.code = "4.2"
     ELSE IF Includes(lower, "contraindication") THEN s.code = "4.3"
     ELSE IF Includes(lower, "warning") \/ Includes(lower, "precaution") THEN s.code = "4.4"
     ELSE IF Includes(lower, "interaction") THEN s.code = "4.5"
     ELSE IF Includes(lower, "pregnancy") \/ Includes(lower, "fertility") THEN s.code = "4.6"
     ELSE IF Includes(lower, "adverse") \/ Includes(lower, "undesirable") \/ Includes(lower, "side effect")
          THEN s.code = "4.8"
     ELSE IF Includes(lower, "overdose") \/ Includes(lower, "overdosage") THEN s.code = "4.9"
     ELSE IF Includes(lower, "pharmacodynamic") THEN s.code = "5.1"
     ELSE IF Includes(lower, "pharmacokinetic") THEN s.code = "5.2"
     ELSE FALSE

\* Filter by requested sections if specified
FilterRequested(results, requestedSections) ==
  IF requestedSections.defined /\ Len(requestedSections.list) > 0
  THEN SelectSeq(results,
         LAMBDA s : \E k \in 1..Len(requestedSections.list) :
                       SectionMatches(s, requestedSections.list[k]))
  ELSE results

\* parseSmpcSections as a function of its arguments
parseSmpcSections(html, requestedSections) ==
  LET s1 == Strategy1(html)
      sectionElements == IF Strategy2Needed(s1) THEN s1 \o Strategy2(html) ELSE s1
  IN FilterRequested(ExtractContent(html, sectionElements), requestedSections)

(***************************************************************************)
(* Nullable values (T | null) and JavaScript Maps.                          *)
(***************************************************************************)
Null == <<>>
Just(v) == <<v>>

EmptyMap == [k \in {} |-> Null]
MapSet(m, k, v) == [x \in (DOMAIN m) \cup {k} |-> IF x = k THEN v ELSE m[x]]
MapGet(m, k) == IF k \in DOMAIN m THEN Just(m[k]) ELSE Null
MapSize(m) == Cardinality(DOMAIN m)

RECURSIVE SectionMapOf(_, _)
\* for (const s of rawSections) sectionMap.set(s.code, {...})
SectionMapOf(rawSections, sectionMap) ==
  IF Len(rawSections) = 0 THEN sectionMap
  ELSE SectionMapOf(Tail(rawSections),
         MapSet(sectionMap, Head(rawSections).code,
                [code |-> Head(rawSections).code, title |-> Head(rawSections).title,
                 content |-> Head(rawSections).content]))

(***************************************************************************)
(* The crosswalk table and its filter.                                      *)
(***************************************************************************)
SECTION_MAP ==
  << [topic |-> "Indications",           us_loinc |-> "34067-9", uk_code |-> "4.1"],
     [topic |-> "Dosing",                us_loinc |-> "34068-7", uk_code |-> "4.2"],
     [topic |-> "Contraindications",     us_loinc |-> "34070-3", uk_code |-> "4.3"],
     [topic |-> "Warnings",              us_loinc |-> "43685-7", uk_code |-> "4.4"],
     [topic |-> "Drug Interactions",     us_loinc |-> "34073-7", uk_code |-> "4.5"],
     [topic |-> "Pregnancy",             us_loinc |-> "42228-7", uk_code |-> "4.6"],
     [topic |-> "Adverse Reactions",     us_loinc |-> "34084-4", uk_code |-> "4.8"],
     [topic |-> "Overdosage",            us_loinc |-> "34088-5", uk_code |-> "4.9"],
     [topic |-> "Clinical Pharmacology", us_loinc |-> "34090-1", uk_code |-> "5.1"] >>

filterSectionMap(requestedTopics) ==
  IF ~requestedTopics.defined \/ Len(requestedTopics.list) = 0 THEN SECTION_MAP
  ELSE SelectSeq(SECTION_MAP,
         LAMBDA mapping : \E k \in 1..Len(requestedTopics.list) :
            LET req == requestedTopics.list[k]
                lower == Trim(ToLowerCase(req))
            IN \/ Includes(ToLowerCase(mapping.topic), lower)
               \/ Includes(lower, ToLowerCase(mapping.topic))
               \/ mapping.us_loinc = req
               \/ mapping.uk_code = req)

(***************************************************************************)
(* get_uspi: section names to LOINC codes.                                  *)
(***************************************************************************)
\* Object.entries(LOINC_MAP), in insertion order
LOINC_MAP ==
  << <<"boxed warning", "34071-1">>,
     <<"indications", "34067-9">>,
     <<"indications and usage", "34067-9">>,
     <<"dosage", "34068-7">>,
     <<"dosage and administration", "34068-7">>,
     <<"dosage forms", "43678-2">>,
     <<"contraindications", "34070-3">>,
     <<"warnings", "43685-7">>,
     <<"warnings and precautions", "43685-7">>,
     <<"adverse reactions", "34084-4">>,
     <<"drug interactions", "34073-7">>,
     <<"use in specific populations", "42228-7">>,
     <<"pregnancy", "42228-7">>,
     <<"overdosage", "34088-5">>,
     <<"clinical pharmacology", "34090-1">>,
     <<"description", "34089-3">>,
     <<"how supplied", "34069-5">>,
     <<"storage", "44425-7">>,
     <<"patient counseling", "34076-0">>,
     <<"medication guide", "42231-1">> >>

\* [...new Set(Object.values(LOINC_MAP))]
ALL_PI_CODES ==
  LET firsts == SelectSeq(Indices(Len(LOINC_MAP)),
                  LAMBDA i : \A j \in 1..(i - 1) : LOINC_MAP[j][2] # LOINC_MAP[i][2])
  IN [k \in 1..Len(firsts) |-> LOINC_MAP[firsts[k]][2]]

\* /^\d{5}-\d$/.test(s)
IsLoincCode(s) ==
  /\ Len(s) = 7
  /\ \A i \in 1..5 : CharAt(s, i) \in Digits
  /\ CharAt(s, 6) = "-"
  /\ CharAt(s, 7) \in Digits

\* the codes one input pushes (none, or one)
ResolveOne(input) ==
  LET lower == Trim(ToLowerCase(input))
      hits == SelectSeq(LOINC_MAP,
                LAMBDA e : Includes(e[1], lower) \/ Includes(lower, e[1]))
  IN IF IsLoincCode(lower) THEN <<lower>>
     ELSE IF Len(hits) > 0 THEN <<hits[1][2]>>
     ELSE <<>>

RECURSIVE ResolveAll(_)
ResolveAll(inputs) ==
  IF Len(inputs) = 0 THEN <<>> ELSE ResolveOne(Head(inputs)) \o ResolveAll(Tail(inputs))

resolveLoincCodes(sections) ==
  IF ~sections.defined \/ Len(sections.list) = 0 THEN Undefined
  ELSE IF Len(ResolveAll(sections.list)) > 0 THEN Some(ResolveAll(sections.list))
  ELSE Undefined

(***************************************************************************)
(* SPL documents: the components of document > component > structuredBody,  *)
(* each with its declared code, title and flattened text.                   *)
(***************************************************************************)
ComponentPool ==
  { [code |-> "34067-9", title |-> "INDICATIONS AND USAGE", content |-> "first"],
    [code |-> "34067-9", title |-> "Indications",           content |-> "second"],
    [code |-> "34069-5", title |-> "HOW SUPPLIED",          content |-> "bottles"],
    [code |-> "48780-1", title |-> "SPL PRODUCT DATA",      content |-> "ndc"] }

SplBodiesUpTo(n) == UNION { [1..k -> ComponentPool] : k \in 0..n }

Range(f) == {f[i] : i \in DOMAIN f}

\* the extractor's own full known-code list
SPL_KNOWN_CODES == Range(ALL_PI_CODES)

\* parseSplSections(structuredBody, codes?)
parseSplSections(structuredBody, codes) ==
  LET wanted == IF codes.defined THEN Range(codes.list) ELSE SPL_KNOWN_CODES
  IN SelectSeq(structuredBody, LAMBDA c : c.code \in wanted)

\* get_uspi without the retry
UspiSectionsNoRetry(structuredBody, rawSections) == rawSections

\* get_uspi: rawSections.length > 0 ? rawSections : parseSplSections(body, ALL_PI_CODES)
UspiSections(structuredBody, rawSections) ==
  IF Len(rawSections) > 0 THEN rawSections
  ELSE parseSplSections(structuredBody, Some(ALL_PI_CODES))

(***************************************************************************)
(* Search hits and the choice of the best one.                              *)
(***************************************************************************)
Drug == "Metformin"

\* published_date is kept as its rank under localeCompare
UsSearchResults ==
  { <<>>,
    << [setid |-> "s-old", title |-> "GLUCOPHAGE tablet",    published_date |-> 3],
       [setid |-> "s-one", title |-> "METFORMIN HCL tablet", published_date |-> 1],
       [setid |-> "s-two", title |-> "Metformin ER",         published_date |-> 2] >> }

UkSearchResults ==
  { <<>>,
    << [product_id |-> "111", name |-> "Glucophage 500 mg"],
       [product_id |-> "222", name |-> "Metformin 500 mg tablets"],
       [product_id |-> "333", name |-> "Metformin oral solution"] >> }

NameMatch(text, drugName) == IF Includes(ToLowerCase(text), ToLowerCase(drugName)) THEN 1 ELSE 0

\* sorted[0] of the stable sort of the US hits: name matches first, then newest
BestUs(searchResults, drugName) ==
  LET cmp(a, b) == IF NameMatch(a.title, drugName) # NameMatch(b.title, drugName)
                   THEN NameMatch(b.title, drugName) - NameMatch(a.title, drugName)
                   ELSE b.published_date - a.published_date
  IN searchResults[CHOOSE i \in 1..Len(searchResults) :
       \A j \in 1..Len(searchResults) :
          j # i => \/ cmp(searchResults[i], searchResults[j]) < 0
                   \/ cmp(searchResults[i], searchResults[j]) = 0 /\ i < j]

\* sorted[0] of the stable sort of the UK hits: name matches first
BestUk(searchResults, drugName) ==
  LET cmp(a, b) == NameMatch(b.name, drugName) - NameMatch(a.name, drugName)
  IN searchResults[CHOOSE i \in 1..Len(searchResults) :
       \A j \in 1..Len(searchResults) :
          j # i => \/ cmp(searchResults[i], searchResults[j]) < 0
                   \/ cmp(searchResults[i], searchResults[j]) = 0 /\ i < j]

DailymedUrl(setid) == "https://dailymed.nlm.nih.gov/dailymed/drugInfo.cfm?setid=" \o setid
EmcUrl(product_id) == "https://www.medicines.org.uk/emc/product/" \o product_id \o "/smpc"

(***************************************************************************)
(* State.                                                                   *)
(***************************************************************************)
VARIABLES
  \* parseSmpcSections, one call
  html,               \* the page handed to the call
  requestedSections,  \* its optional request list
  sectionElements,    \* the boundaries pushed so far
  results,            \* the sections assembled from the boundaries
  returned,           \* the value returned
  ppc,                \* position in the function body
  scans,              \* the strategies that have run, in order
  \* one tool call (compare_labels, get_uspi or get_smpc)
  tool,               \* the tool invoked
  tpc,                \* position of its handler
  params,             \* params.sections
  mappings,           \* compare_labels: the filtered crosswalk rows
  usBranch,           \* compare_labels: the promise of fetchUsSections
  ukBranch,           \* compare_labels: the promise of fetchUkSections
  structuredBody,     \* the SPL body last fetched
  smpcHtml,           \* get_smpc: the page fetched
  best,               \* get_uspi / get_smpc: the search hit chosen
  toolResult,         \* the value the handler returned
  \* batchEmcLookups, one call
  drugNames,          \* its argument
  bi,                 \* the loop variable i
  bpc,                \* position in the function body
  lookups,            \* per name index: the state of its searchEmc promise
  started,            \* per name index: how many searchEmc calls were made for it
  batchResults,       \* the Map 'results'
  \* search_by_indication merging the US and UK hit lists, one call
  usResult,           \* the settled promise of searchByIndication
  ukResult,           \* the settled promise of searchEmc(condition)
  maxResults,         \* params.maxResults
  drugMap,            \* the Map drugMap, by normalized name
  drugOrder,          \* its keys in insertion order
  mi,                 \* the index of the loop under way
  mpc,                \* position of the handler
  drugs,              \* the list returned
  \* the NCBI rateLimitedFetch, any number of overlapping calls
  apiKey,             \* ncbi.ts: whether setApiKey was called at start-up
  ncbiLastRequestTime,\* ncbi.ts: lastRequestTime
  clock,              \* Date.now(), in ms
  timers,             \* the wake-up times of the calls asleep at line 34, in order
  fetchStarts,        \* the times at which fetch(url) was called, in order
  ncalls,             \* the number of calls of rateLimitedFetch made
  \* format_citation: one formatter applied to one ArticleInfo
  info,               \* the ArticleInfo handed to the formatter
  style,              \* params.style
  citation,           \* the formatted string
  \* parsed XML values and the extractors of lib/cache.ts
  xmlKind,            \* which part of a parsed document xmlNode is
  xmlNode,            \* the parsed XML value handed to the extractor
  xmlCall,            \* the extractor that ran, "none" before
  xmlText,            \* the string an extractor returned
  xmlList,            \* the list an extractor returned
  xmlResult,          \* the tool result a handler returned
  \* normalizeDrugName on product titles
  drugTitle,          \* the product title handed to normalizeDrugName
  normalizedName,     \* the name normalizeDrugName returned
  normDone,           \* whether normalizeDrugName has run
  \* a LRUCache of lib/cache.ts under get, set and clear
  lruCache,           \* the Map of the LRUCache, oldest entry first
  lruMax,             \* maxEntries
  lruNow,             \* Date.now()
  lruTouches,         \* history, the keys in the order of their last touch
  lruLast,            \* the last operation and what it returned
  \* resolveLoincCodes on section names
  loincSections,      \* the sections argument of resolveLoincCodes
  resolvedCodes,         \* what resolveLoincCodes returned
  loincDone,          \* whether resolveLoincCodes has run
  \* the cache-guarded fetch wrappers of emc.ts, ncbi.ts and openfda.ts, overlapping calls
  cache,              \* the LRUCache shared by the wrappers, oldest entry first
  lastRequestTime,    \* per upstream module: its lastRequestTime
  wallClock,          \* Date.now(), in ms
  calls,              \* the wrapper calls made so far, each with its position
  issued              \* the calls of fetch(url) made so far, in order

smpcVars == <<html, requestedSections, sectionElements, results, returned, ppc, scans>>
toolVars ==
  <<tool, tpc, params, mappings, usBranch, ukBranch, structuredBody, smpcHtml, best, toolResult>>
batchVars == <<drugNames, bi, bpc, lookups, started, batchResults>>

mergeVars == <<usResult, ukResult, maxResults, drugMap, drugOrder, mi, mpc, drugs>>

rateVars == <<apiKey, ncbiLastRequestTime, clock, timers, fetchStarts, ncalls>>

citeVars == <<info, style, citation>>

xmlVars == <<xmlKind, xmlNode, xmlCall, xmlText, xmlList, xmlResult>>

normVars == <<drugTitle, normalizedName, normDone>>

lruVars == <<lruCache, lruMax, lruNow, lruTouches, lruLast>>

loincVars == <<loincSections, resolvedCodes, loincDone>>

fetchVars == <<cache, lastRequestTime, wallClock, calls, issued>>

vars == <<smpcVars, toolVars, batchVars, mergeVars, rateVars, citeVars, xmlVars, normVars, lruVars, loincVars, fetchVars>>

\* what the steps of one component leave alone
notSmpc == <<toolVars, batchVars, mergeVars, rateVars, citeVars, xmlVars, normVars, lruVars, loincVars, fetchVars>>
notTool == <<smpcVars, batchVars, mergeVars, rateVars, citeVars, xmlVars, normVars, lruVars, loincVars, fetchVars>>
notBatch == <<smpcVars, toolVars, mergeVars, rateVars, citeVars, xmlVars, normVars, lruVars, loincVars, fetchVars>>
notMerge == <<smpcVars, toolVars, batchVars, rateVars, citeVars, xmlVars, normVars, lruVars, loincVars, fetchVars>>
notRate == <<smpcVars, toolVars, batchVars, mergeVars, citeVars, xmlVars, normVars, lruVars, loincVars, fetchVars>>
notCite == <<smpcVars, toolVars, batchVars, mergeVars, rateVars, xmlVars, normVars, lruVars, loincVars, fetchVars>>
notXml == <<smpcVars, toolVars, batchVars, mergeVars, rateVars, citeVars, normVars, lruVars, loincVars, fetchVars>>
notNorm == <<smpcVars, toolVars, batchVars, mergeVars, rateVars, citeVars, xmlVars, lruVars, loincVars, fetchVars>>
notLru == <<smpcVars, toolVars, batchVars, mergeVars, rateVars, citeVars, xmlVars, normVars, loincVars, fetchVars>>
notLoinc == <<smpcVars, toolVars, batchVars, mergeVars, rateVars, citeVars, xmlVars, normVars, lruVars, fetchVars>>
notFetch == <<smpcVars, toolVars, batchVars, mergeVars, rateVars, citeVars, xmlVars, normVars, lruVars, loincVars>>

BranchIdle ==
  [st |-> "idle", best |-> Null, sections |-> EmptyMap, source |-> Null, reason |-> ""]

NoResult ==
  [isError |-> FALSE, kind |-> "none", text |-> "", details |-> <<>>, comparisons |-> <<>>,
   us_source |-> Null, uk_source |-> Null, sections |-> <<>>, id |-> "", url |-> ""]

SmpcIdle ==
  /\ html = <<>>
  /\ requestedSections = Undefined
  /\ sectionElements = <<>>
  /\ results = <<>>
  /\ returned = <<>>
  /\ ppc = "idle"
  /\ scans = <<>>

ToolIdle ==
  /\ tool = "none"
  /\ tpc = "idle"
  /\ params = Undefined
  /\ mappings = <<>>
  /\ usBranch = BranchIdle
  /\ ukBranch = BranchIdle
  /\ structuredBody = <<>>
  /\ smpcHtml = <<>>
  /\ best = Null
  /\ toolResult = NoResult

BatchIdle ==
  /\ drugNames = <<>>
  /\ bi = 0
  /\ bpc = "idle"
  /\ lookups = <<>>
  /\ started = <<>>
  /\ batchResults = EmptyMap

MergeIdle ==
  /\ usResult = [status |-> "idle", value |-> <<>>]
  /\ ukResult = [status |-> "idle", value |-> <<>>]
  /\ maxResults = 0
  /\ drugMap = EmptyMap
  /\ drugOrder = <<>>
  /\ mi = 0
  /\ mpc = "idle"
  /\ drugs = <<>>

RateIdle ==
  /\ apiKey = FALSE
  /\ ncbiLastRequestTime = 0
  /\ clock = 0
  /\ timers = <<>>
  /\ fetchStarts = <<>>
  /\ ncalls = 0

CiteIdle ==
  /\ info = <<>>
  /\ style = "none"
  /\ citation = ""

XmlIdle ==
  /\ xmlKind = "none"
  /\ xmlNode = [kind |-> "undefined"]
  /\ xmlCall = "none"
  /\ xmlText = ""
  /\ xmlList = <<>>
  /\ xmlResult = [isError |-> FALSE, text |-> "", record |-> <<>>]

NormIdle ==
  /\ drugTitle = ""
  /\ normalizedName = ""
  /\ normDone = FALSE

LruIdle ==
  /\ lruCache = <<>>
  /\ lruMax = 0
  /\ lruNow = 0
  /\ lruTouches = <<>>
  /\ lruLast = [op |-> "none", key |-> "", present |-> FALSE, result |-> <<>>, evicted |-> <<>>]

LoincIdle ==
  /\ loincSections = [defined |-> FALSE, list |-> <<>>]
  /\ resolvedCodes = [defined |-> FALSE, list |-> <<>>]
  /\ loincDone = FALSE

FetchIdle ==
  /\ cache = <<>>
  /\ lastRequestTime = [emc |-> 0, ncbi |-> 0, openfda |-> 0]
  /\ wallClock = 0
  /\ calls = <<>>
  /\ issued = <<>>

(***************************************************************************)
(* parseSmpcSections, block by block.                                       *)
(***************************************************************************)
SmpcRequests ==
  { Undefined, Some(<<>>), Some(<<"4.1">>), Some(<<"Contraindication">>),
    Some(<<"interaction">>), Some(<<" Therapeutic ">>),
    Some(<<"4.3 contraindications and more">>), Some(<<"tablets", "4.4">>) }

SmpcInit ==
  /\ html \in PagesUpTo(MaxElements)
  /\ requestedSections \in SmpcRequests
  /\ sectionElements = <<>>
  /\ results = <<>>
  /\ returned = <<>>
  /\ ppc = "strategy1"
  /\ scans = <<>>
  /\ ToolIdle
  /\ BatchIdle
  /\ MergeIdle
  /\ RateIdle
  /\ CiteIdle
  /\ XmlIdle
  /\ NormIdle
  /\ LruIdle
  /\ LoincIdle
  /\ FetchIdle

\* lines 148-159
Strategy1Scan ==
  /\ ppc = "strategy1"
  /\ sectionElements' = sectionElements \o Strategy1(html)
  /\ scans' = Append(scans, 1)
  /\ ppc' = "strategy2"
  /\ UNCHANGED <<html, requestedSections, results, returned>>
  /\ UNCHANGED notSmpc

\* lines 161-176, the branch taken
Strategy2Scan ==
  /\ ppc = "strategy2"
  /\ Strategy2Needed(sectionElements)
  /\ sectionElements' = sectionElements \o Strategy2(html)
  /\ scans' = Append(scans, 2)
  /\ ppc' = "extract"
  /\ UNCHANGED <<html, requestedSections, results, returned>>
  /\ UNCHANGED notSmpc

\* lines 161-176, the branch skipped
Strategy2Skip ==
  /\ ppc = "strategy2"
  /\ ~Strategy2Needed(sectionElements)
  /\ ppc' = "extract"
  /\ UNCHANGED <<html, requestedSections, sectionElements, results, returned, scans>>
  /\ UNCHANGED notSmpc

\* lines 178-213
ExtractSections ==
  /\ ppc = "extract"
  /\ results' = ExtractContent(html, sectionElements)
  /\ ppc' = "filter"
  /\ UNCHANGED <<html, requestedSections, sectionElements, returned, scans>>
  /\ UNCHANGED notSmpc

\* lines 215-240
FilterAndReturn ==
  /\ ppc = "filter"
  /\ returned' = FilterRequested(results, requestedSections)
  /\ ppc' = "done"
  /\ UNCHANGED <<html, requestedSections, sectionElements, results, scans>>
  /\ UNCHANGED notSmpc

SmpcNext ==
  \/ Strategy1Scan
  \/ Strategy2Scan
  \/ Strategy2Skip
  \/ ExtractSections
  \/ FilterAndReturn

SpecSmpc == SmpcInit /\ [][SmpcNext]_vars

(***************************************************************************)
(* compare_labels.                                                          *)
(***************************************************************************)
ToolRequests ==
  { Undefined, Some(<<"indications">>), Some(<<"99999-9">>),
    Some(<<"zzz">>), Some(<<"4.1", "34070-3">>) }

Settled == {"fulfilled", "rejected"}

\* resolved as soon as one promise has settled
AnySettled(a, b) == a.st \in Settled \/ b.st \in Settled

\* Promise.allSettled([a, b]) has resolved
AllSettled(a, b) == a.st \in Settled /\ b.st \in Settled

Fulfilled(sections, source) ==
  [st |-> "fulfilled", best |-> Null, sections |-> sections, source |-> source, reason |-> ""]

Rejected(reason) ==
  [st |-> "rejected", best |-> Null, sections |-> EmptyMap, source |-> Null, reason |-> reason]

\* fetchUsSections after fetchSplXml resolved (lines 36-50)
UsSectionsOf(body, loincCodes, hit) ==
  Fulfilled(SectionMapOf(parseSplSections(body, Some(loincCodes)), EmptyMap),
            Just(DailymedUrl(hit.setid)))

\* fetchUkSections after fetchSmpcHtml resolved (lines 69-79)
UkSectionsOf(page, ukCodes, hit) ==
  Fulfilled(SectionMapOf(parseSmpcSections(page, Some(ukCodes)), EmptyMap),
            Just(EmcUrl(hit.product_id)))

\* usResult.status === "fulfilled" ? usResult.value : { sections: new Map(), source: null }
ValueOrEmpty(branch) ==
  IF branch.st = "fulfilled" THEN [sections |-> branch.sections, source |-> branch.source]
  ELSE [sections |-> EmptyMap, source |-> Null]

\* only the rows with a section on some side
CompareRowsPresentOnly(rows, usSections, ukSections) ==
  LET all == [i \in 1..Len(rows) |->
                [topic |-> rows[i].topic,
                 us_section |-> MapGet(usSections, rows[i].us_loinc),
                 uk_section |-> MapGet(ukSections, rows[i].uk_code)]]
  IN SelectSeq(all, LAMBDA c : c.us_section # Null \/ c.uk_section # Null)

\* mappings.map((mapping) => ({ topic, us_section ?? null, uk_section ?? null }))
CompareRows(rows, usSections, ukSections) ==
  [i \in 1..Len(rows) |->
     [topic |-> rows[i].topic,
      us_section |-> MapGet(usSections, rows[i].us_loinc),
      uk_section |-> MapGet(ukSections, rows[i].uk_code)]]

\* the reason of the UK branch dropped
ErrorDetailsUsOnly(a, b) ==
  IF a.st = "rejected" THEN <<"US: " \o a.reason>> ELSE <<>>

\* the array 'errors' of the aggregate failure
ErrorDetails(a, b) ==
  (IF a.st = "rejected" THEN <<"US: " \o a.reason>> ELSE <<>>)
    \o (IF b.st = "rejected" THEN <<"UK: " \o b.reason>> ELSE <<>>)

\* the handler from Promise.allSettled on (lines 110-144)
CompareResult(rows, a, b) ==
  LET us == ValueOrEmpty(a)
      uk == ValueOrEmpty(b)
  IN IF MapSize(us.sections) = 0 /\ MapSize(uk.sections) = 0
     THEN [NoResult EXCEPT !.isError = TRUE, !.kind = "no_labelling",
                           !.text = "No labelling found for " \o Drug \o " in either US or UK databases",
                           !.details = ErrorDetails(a, b)]
     ELSE [NoResult EXCEPT !.kind = "comparison",
                           !.comparisons = CompareRows(rows, us.sections, uk.sections),
                           !.us_source = us.source,
                           !.uk_source = uk.source]

UsCodes(rows) == [i \in 1..Len(rows) |-> rows[i].us_loinc]
UkCodes(rows) == [i \in 1..Len(rows) |-> rows[i].uk_code]

\* lines 88-108: filter the crosswalk, then start both fetches
CompareLabelsCall ==
  /\ tpc = "idle"
  /\ \E req \in ToolRequests :
       /\ params' = req
       /\ mappings' = filterSectionMap(req)
       /\ IF Len(filterSectionMap(req)) = 0
          THEN /\ toolResult' = [NoResult EXCEPT !.isError = TRUE, !.kind = "no_mappings",
                    !.text = "No matching section mappings found for the requested topics"]
               /\ tpc' = "done"
               /\ UNCHANGED <<usBranch, ukBranch>>
          ELSE /\ usBranch' = [BranchIdle EXCEPT !.st = "search"]
               /\ ukBranch' = [BranchIdle EXCEPT !.st = "search"]
               /\ tpc' = "await"
               /\ UNCHANGED toolResult
  /\ tool' = "compare_labels"
  /\ UNCHANGED <<structuredBody, smpcHtml, best>>
  /\ UNCHANGED notTool

\* fetchUsSections: searchDrugLabels settles (lines 23-35)
UsSearchSettles ==
  /\ tool = "compare_labels" /\ usBranch.st = "search"
  /\ \/ usBranch' = Rejected("Error: DailyMed API error: 503 Service Unavailable")
     \/ \E hits \in UsSearchResults :
          usBranch' = IF Len(hits) = 0 THEN Fulfilled(EmptyMap, Null)
                      ELSE [usBranch EXCEPT !.st = "fetch", !.best = Just(BestUs(hits, Drug))]
  /\ UNCHANGED <<tool, tpc, params, mappings, ukBranch, structuredBody, smpcHtml, best, toolResult>>
  /\ UNCHANGED notTool

\* fetchUsSections: fetchSplXml settles (lines 35-50)
UsFetchSettles ==
  /\ tool = "compare_labels" /\ usBranch.st = "fetch"
  /\ \/ /\ usBranch' = Rejected("Error: DailyMed API error: 404 Not Found")
        /\ UNCHANGED structuredBody
     \/ \E body \in SplBodiesUpTo(MaxToolElements) :
          /\ structuredBody' = body
          /\ usBranch' = UsSectionsOf(body, UsCodes(mappings), usBranch.best[1])
  /\ UNCHANGED <<tool, tpc, params, mappings, ukBranch, smpcHtml, best, toolResult>>
  /\ UNCHANGED notTool

\* fetchUkSections: searchEmc settles (lines 57-68)
UkSearchSettles ==
  /\ tool = "compare_labels" /\ ukBranch.st = "search"
  /\ \/ ukBranch' = Rejected("Error: eMC error: 503 Service Unavailable")
     \/ \E hits \in UkSearchResults :
          ukBranch' = IF Len(hits) = 0 THEN Fulfilled(EmptyMap, Null)
                      ELSE [ukBranch EXCEPT !.st = "fetch", !.best = Just(BestUk(hits, Drug))]
  /\ UNCHANGED <<tool, tpc, params, mappings, usBranch, structuredBody, smpcHtml, best, toolResult>>
  /\ UNCHANGED notTool

\* fetchUkSections: fetchSmpcHtml settles (lines 68-79)
UkFetchSettles ==
  /\ tool = "compare_labels" /\ ukBranch.st = "fetch"
  /\ \/ ukBranch' = Rejected("Error: eMC error: 404 Not Found")
     \/ \E page \in ComparePagesUpTo(MaxToolElements) :
          ukBranch' = UkSectionsOf(page, UkCodes(mappings), ukBranch.best[1])
  /\ UNCHANGED <<tool, tpc, params, mappings, usBranch, structuredBody, smpcHtml, best, toolResult>>
  /\ UNCHANGED notTool

\* lines 105-144: the await resumes and the handler answers
CompareLabelsAnswers ==
  /\ tool = "compare_labels" /\ tpc = "await"
  /\ AllSettled(usBranch, ukBranch)
  /\ toolResult' = CompareResult(mappings, usBranch, ukBranch)
  /\ tpc' = "done"
  /\ UNCHANGED <<tool, params, mappings, usBranch, ukBranch, structuredBody, smpcHtml, best>>
  /\ UNCHANGED notTool

(***************************************************************************)
(* get_uspi and get_smpc.                                                   *)
(***************************************************************************)
\* the catch block of a handler
Caught(prefix, message) ==
  [NoResult EXCEPT !.isError = TRUE, !.kind = "exception", !.text = prefix \o message]

NotFound(text) == [NoResult EXCEPT !.isError = TRUE, !.kind = "not_found", !.text = text]

\* get_uspi, lines 108-127
UspiResult(hit, body, sections) ==
  LET requestedCodes == resolveLoincCodes(sections)
      rawSections == parseSplSections(body, requestedCodes)
  IN [NoResult EXCEPT !.kind = "uspi",
                      !.sections = UspiSections(body, rawSections),
                      !.id = hit.setid,
                      !.url = DailymedUrl(hit.setid)]

\* get_smpc, lines 45-52
SmpcResult(hit, page, sections) ==
  [NoResult EXCEPT !.kind = "smpc",
                   !.sections = parseSmpcSections(page, sections),
                   !.id = hit.product_id,
                   !.url = EmcUrl(hit.product_id)]

GetUspiCall ==
  /\ tpc = "idle"
  /\ \E req \in ToolRequests : params' = req
  /\ tool' = "get_uspi"
  /\ tpc' = "search"
  /\ UNCHANGED <<mappings, usBranch, ukBranch, structuredBody, smpcHtml, best, toolResult>>
  /\ UNCHANGED notTool

\* get_uspi: searchDrugLabels settles (lines 76-98)
UspiSearchSettles ==
  /\ tool = "get_uspi" /\ tpc = "search"
  /\ \/ /\ toolResult' = Caught("Error fetching USPI: ", "DailyMed API error: 503 Service Unavailable")
        /\ tpc' = "done"
        /\ UNCHANGED best
     \/ \E hits \in UsSearchResults :
          IF Len(hits) = 0
          THEN /\ toolResult' = NotFound("No FDA labelling found for " \o Drug)
               /\ tpc' = "done"
               /\ UNCHANGED best
          ELSE /\ best' = Just(BestUs(hits, Drug))
               /\ tpc' = "fetch"
               /\ UNCHANGED toolResult
  /\ UNCHANGED <<tool, params, mappings, usBranch, ukBranch, structuredBody, smpcHtml>>
  /\ UNCHANGED notTool

\* get_uspi: fetchSplXml settles (lines 98-131)
UspiFetchSettles ==
  /\ tool = "get_uspi" /\ tpc = "fetch"
  /\ \/ /\ toolResult' = Caught("Error fetching USPI: ", "DailyMed API error: 404 Not Found")
        /\ UNCHANGED structuredBody
     \/ \E body \in SplBodiesUpTo(MaxToolElements) :
          /\ structuredBody' = body
          /\ toolResult' = UspiResult(best[1], body, params)
  /\ tpc' = "done"
  /\ UNCHANGED <<tool, params, mappings, usBranch, ukBranch, smpcHtml, best>>
  /\ UNCHANGED notTool

GetSmpcCall ==
  /\ tpc = "idle"
  /\ \E req \in SmpcRequests : params' = req
  /\ tool' = "get_smpc"
  /\ tpc' = "search"
  /\ UNCHANGED <<mappings, usBranch, ukBranch, structuredBody, smpcHtml, best, toolResult>>
  /\ UNCHANGED notTool

\* get_smpc: searchEmc settles (lines 23-43)
SmpcSearchSettles ==
  /\ tool = "get_smpc" /\ tpc = "search"
  /\ \/ /\ toolResult' = Caught("Error fetching SmPC: ", "eMC error: 503 Service Unavailable")
        /\ tpc' = "done"
        /\ UNCHANGED best
     \/ \E hits \in UkSearchResults :
          IF Len(hits) = 0
          THEN /\ toolResult' = NotFound("No SmPC found for " \o Drug \o " on eMC")
               /\ tpc' = "done"
               /\ UNCHANGED best
          ELSE /\ best' = Just(BestUk(hits, Drug))
               /\ tpc' = "fetch"
               /\ UNCHANGED toolResult
  /\ UNCHANGED <<tool, params, mappings, usBranch, ukBranch, structuredBody, smpcHtml>>
  /\ UNCHANGED notTool

\* get_smpc: fetchSmpcHtml settles (lines 44-56)
SmpcFetchSettles ==
  /\ tool = "get_smpc" /\ tpc = "fetch"
  /\ \/ /\ toolResult' = Caught("Error fetching SmPC: ", "eMC error: 404 Not Found")
        /\ UNCHANGED smpcHtml
     \/ \E page \in PagesUpTo(MaxToolElements) :
          /\ smpcHtml' = page
          /\ toolResult' = SmpcResult(best[1], page, params)
  /\ tpc' = "done"
  /\ UNCHANGED <<tool, params, mappings, usBranch, ukBranch, structuredBody, best>>
  /\ UNCHANGED notTool

ToolInit == SmpcIdle /\ ToolIdle /\ BatchIdle

  /\ MergeIdle
  /\ RateIdle
  /\ CiteIdle
  /\ XmlIdle
  /\ NormIdle
  /\ LruIdle
  /\ LoincIdle
  /\ FetchIdle
ToolNext ==
  \/ CompareLabelsCall
  \/ UsSearchSettles
  \/ UsFetchSettles
  \/ UkSearchSettles
  \/ UkFetchSettles
  \/ CompareLabelsAnswers
  \/ GetSmpcCall
  \/ SmpcSearchSettles
  \/ SmpcFetchSettles
  \/ GetUspiCall
  \/ UspiSearchSettles
  \/ UspiFetchSettles

SpecTools == ToolInit /\ [][ToolNext]_vars

(***************************************************************************)
(* normalizeDrugName.                                                       *)
(***************************************************************************)
\* String.prototype.indexOf: zero-based, -1 when absent
IndexOf(s, t) ==
  IF ~Includes(s, t) THEN -1
  ELSE CHOOSE k \in 0..(Len(s) - Len(t)) :
         /\ SubSeq(s, k + 1, k + Len(t)) = t
         /\ \A j \in 0..(k - 1) : SubSeq(s, j + 1, j + Len(t)) # t

\* \w
WordChars ==
  {CharAt(LowerChars, i) : i \in 1..26} \cup {CharAt(UpperChars, i) : i \in 1..26}
    \cup Digits \cup {"_"}

IsWordAt(s, i) == i >= 1 /\ i <= Len(s) /\ CharAt(s, i) \in WordChars

\* \b between the characters i and i + 1 of s
WordBoundary(s, i) == IsWordAt(s, i) # IsWordAt(s, i + 1)

\* the last index of a match of /\b<w>s?\b/ (or /\b<w>\b/) that starts at i, 0 if none
WordMatchEnd(s, i, w, plural) ==
  LET e == i + Len(w) - 1
  IN IF ~(e <= Len(s) /\ SubSeq(s, i, e) = w /\ WordBoundary(s, i - 1)) THEN 0
     ELSE IF plural /\ e + 1 <= Len(s) /\ CharAt(s, e + 1) = "s" /\ WordBoundary(s, e + 1)
          THEN e + 1
     ELSE IF WordBoundary(s, e) THEN e
     ELSE 0

RECURSIVE RemoveWordFrom(_, _, _, _)
\* the characters from..Len(s) of s.replace(new RegExp(..., "g"), "")
RemoveWordFrom(s, from, w, plural) ==
  LET starts == {i \in from..Len(s) : WordMatchEnd(s, i, w, plural) > 0}
  IN IF starts = {} THEN SubSeq(s, from, Len(s))
     ELSE LET i == CHOOSE x \in starts : \A y \in starts : x <= y
          IN SubSeq(s, from, i - 1) \o RemoveWordFrom(s, WordMatchEnd(s, i, w, plural) + 1, w, plural)

RECURSIVE RemoveWords(_, _, _, _)
\* for (const w of words) name = name.replace(..., ""), from the k-th word on
RemoveWords(name, words, k, plural) ==
  IF k > Len(words) THEN name
  ELSE LET replaced == RemoveWordFrom(name, 1, words[k], plural)
       IN IF Len(replaced) = 0 THEN "" ELSE RemoveWords(replaced, words, k + 1, plural)

RECURSIVE RemoveCharsRange(_, _, _, _)
RemoveCharsRange(s, lo, hi, cs) ==
  IF lo > hi THEN ""
  ELSE IF lo = hi THEN (IF CharAt(s, lo) \in cs THEN "" ELSE CharAt(s, lo))
  ELSE RemoveCharsRange(s, lo, (lo + hi) \div 2, cs)
         \o RemoveCharsRange(s, (lo + hi) \div 2 + 1, hi, cs)

RECURSIVE CollapseSpacesRange(_, _, _)
CollapseSpacesRange(s, lo, hi) ==
  IF lo > hi THEN ""
  ELSE IF lo = hi
       THEN (IF CharAt(s, lo) \notin Whitespace THEN CharAt(s, lo)
             ELSE IF lo > 1 /\ CharAt(s, lo - 1) \in Whitespace THEN "" ELSE " ")
  ELSE CollapseSpacesRange(s, lo, (lo + hi) \div 2)
         \o CollapseSpacesRange(s, (lo + hi) \div 2 + 1, hi)

\* .replace(/\s+/g, " ")
CollapseSpaces(s) == CollapseSpacesRange(s, 1, Len(s))

dosageForms ==
  << "tablet", "capsule", "injection", "solution", "suspension", "cream",
     "ointment", "gel", "patch", "inhaler", "spray", "drops", "syrup",
     "powder", "suppository", "extended-release", "delayed-release",
     "oral", "topical", "intravenous", "subcutaneous", "intramuscular" >>

salts ==
  << "hydrochloride", "sodium", "potassium", "mesylate", "fumarate", "succinate",
     "tartrate", "maleate", "besylate", "calcium" >>

normalizeDrugName(title) ==
  LET lower == ToLowerCase(title)
      dashIdx == IndexOf(lower, " - ")
      cut == IF dashIdx > 0 THEN SubSeq(lower, 1, dashIdx) ELSE lower
      noForms == RemoveWords(cut, dosageForms, 1, TRUE)
      noSalts == RemoveWords(noForms, salts, 1, FALSE)
  IN Trim(CollapseSpaces(RemoveCharsRange(noSalts, 1, Len(noSalts), {",", "(", ")"})))

(***************************************************************************)
(* batchEmcLookups.                                                         *)
(***************************************************************************)
MAX_CONCURRENT_EMC == 5

Min(a, b) == IF a < b THEN a ELSE b

\* the distinct generic names handed over by search_by_indication
NameOf(j) == "drug-" \o CharAt("123456789", j)
NamesOf(n) == [j \in 1..n |-> NameOf(j)]

\* what searchEmc(name) resolves with when it finds products
EmcHits(name) == <<[product_id |-> "9" \o name, name |-> name, company |-> ""]>>

\* a slice one element too long
BatchIndicesWide(i, n) == (i + 1)..Min(i + MAX_CONCURRENT_EMC + 1, n)

\* the indices of drugNames.slice(i, i + MAX_CONCURRENT_EMC)
BatchIndices(i, n) == (i + 1)..Min(i + MAX_CONCURRENT_EMC, n)

Unsettled == {j \in DOMAIN lookups : lookups[j] = "pending"}

\* an outcome kept whenever the promise fulfilled, hits or not
KeepsAnyFulfilled(outcome) == outcome \in {"fulfilled", "empty"}

\* line 21: outcome.status === "fulfilled" && outcome.value.length > 0
Keeps(outcome) == outcome = "fulfilled"

RECURSIVE Collect(_, _, _)
\* the loop over settled[j] (lines 19-24), for the batch indices js in order
Collect(map, js, names) ==
  IF js = {} THEN map
  ELSE LET j == CHOOSE x \in js : \A y \in js : x <= y
       IN Collect(IF Keeps(lookups[j]) THEN MapSet(map, names[j], EmcHits(names[j])) ELSE map,
                  js \ {j}, names)

BatchInit ==
  /\ \E n \in 0..MaxNames : 
       /\ drugNames = NamesOf(n)
       /\ lookups = [j \in 1..n |-> "unstarted"]
       /\ started = [j \in 1..n |-> 0]
  /\ bi = 0
  /\ bpc = "loop"
  /\ batchResults = EmptyMap
  /\ SmpcIdle
  /\ ToolIdle
  /\ MergeIdle
  /\ RateIdle
  /\ CiteIdle
  /\ XmlIdle
  /\ NormIdle
  /\ LruIdle
  /\ LoincIdle
  /\ FetchIdle

\* lines 14-18: the loop test, the slice, and batch.map((name) => searchEmc(name))
BatchStart ==
  /\ bpc = "loop"
  /\ bi < Len(drugNames)
  /\ lookups' = [j \in DOMAIN lookups |->
                   IF j \in BatchIndices(bi, Len(drugNames)) THEN "pending" ELSE lookups[j]]
  /\ started' = [j \in DOMAIN started |->
                   IF j \in BatchIndices(bi, Len(drugNames)) THEN started[j] + 1 ELSE started[j]]
  /\ bpc' = "await"
  /\ UNCHANGED <<drugNames, bi, batchResults>>
  /\ UNCHANGED notBatch

\* one searchEmc promise settles: hits, no hit, or a rejection
LookupSettles ==
  /\ bpc = "await"
  /\ \E j \in Unsettled : \E outcome \in {"fulfilled", "empty", "rejected"} :
       lookups' = [lookups EXCEPT ![j] = outcome]
  /\ UNCHANGED <<drugNames, bi, bpc, started, batchResults>>
  /\ UNCHANGED notBatch

\* lines 16-25: Promise.allSettled resolves, the outcomes are collected, i += 5
BatchCollect ==
  /\ bpc = "await"
  /\ Unsettled = {}
  /\ batchResults' = Collect(batchResults, BatchIndices(bi, Len(drugNames)), drugNames)
  /\ bi' = bi + MAX_CONCURRENT_EMC
  /\ bpc' = "loop"
  /\ UNCHANGED <<drugNames, lookups, started>>
  /\ UNCHANGED notBatch

\* line 26
BatchReturn ==
  /\ bpc = "loop"
  /\ bi >= Len(drugNames)
  /\ bpc' = "done"
  /\ UNCHANGED <<drugNames, bi, lookups, started, batchResults>>
  /\ UNCHANGED notBatch

BatchNext ==
  \/ BatchStart
  \/ LookupSettles
  \/ BatchCollect
  \/ BatchReturn

SpecBatch == BatchInit /\ [][BatchNext]_vars

(***************************************************************************)
(* search_by_indication, the variant that merges the US and UK hit lists.   *)
(***************************************************************************)
MaxHits == 2

UsHitPool ==
  { [title |-> "METFORMIN HYDROCHLORIDE tablet - TEVA", setid |-> "s1"],
    [title |-> "Metformin tablets", setid |-> "s2"],
    [title |-> "Oral Solution", setid |-> "s3"] }

UkHitPool ==
  { [name |-> "Metformin Tablets", product_id |-> "p1"],
    [name |-> "Gliclazide capsules", product_id |-> "p2"],
    [name |-> "Tablets (oral)", product_id |-> "p3"] }

HitListsUpTo(pool, n) == UNION { [1..k -> pool] : k \in 0..n }

\* usResult.status === "fulfilled" ? usResult.value : []
ValueOrNone(settled) == IF settled.status = "fulfilled" THEN settled.value ELSE <<>>

\* an overwrite of the entry, whatever was there
MergeUkOverwrite(map, uk) ==
  LET normalized == normalizeDrugName(uk.name)
  IN IF normalized = "" THEN map
     ELSE MapSet(map, normalized,
            [name |-> normalized, us_approved |-> FALSE, uk_approved |-> TRUE,
             us_setid |-> Null, uk_product_id |-> Just(uk.product_id)])

\* lines 92-106: one iteration of the loop over ukResults
MergeUk(map, uk) ==
  LET normalized == normalizeDrugName(uk.name)
  IN IF normalized = "" THEN map
     ELSE IF normalized \in DOMAIN map
          THEN [map EXCEPT ![normalized].uk_approved = TRUE,
                           ![normalized].uk_product_id =
                              IF @ = Null \/ @ = Just("") THEN Just(uk.product_id) ELSE @]
     ELSE MapSet(map, normalized,
            [name |-> normalized, us_approved |-> FALSE, uk_approved |-> TRUE,
             us_setid |-> Null, uk_product_id |-> Just(uk.product_id)])

\* lines 74-88: one iteration of the loop over usResults
MergeUs(map, us) ==
  LET normalized == normalizeDrugName(us.title)
  IN IF normalized = "" THEN map
     ELSE IF normalized \in DOMAIN map
          THEN [map EXCEPT ![normalized].us_approved = TRUE,
                           ![normalized].us_setid =
                              IF @ = Null \/ @ = Just("") THEN Just(us.setid) ELSE @]
     ELSE MapSet(map, normalized,
            [name |-> normalized, us_approved |-> TRUE, uk_approved |-> FALSE,
             us_setid |-> Just(us.setid), uk_product_id |-> Null])

\* the keys of a Map in insertion order, after a set of key k
OrderAfterSet(order, map, k) ==
  IF k = "" \/ k \in DOMAIN map THEN order ELSE Append(order, k)

Score(e) == (IF e.us_approved THEN 1 ELSE 0) + (IF e.uk_approved THEN 1 ELSE 0)

\* lines 109-116: [...drugMap.values()].sort(by score, descending).slice(0, maxResults)
SortedDrugs(map, order, limit) ==
  LET byScore(n) == SelectSeq(order, LAMBDA k : Score(map[k]) = n)
      sorted == byScore(2) \o byScore(1) \o byScore(0)
  IN [i \in 1..Min(limit, Len(sorted)) |-> map[sorted[i]]]

MergeInit ==
  /\ usResult = [status |-> "idle", value |-> <<>>]
  /\ ukResult = [status |-> "idle", value |-> <<>>]
  /\ maxResults = 0
  /\ drugMap = EmptyMap
  /\ drugOrder = <<>>
  /\ mi = 0
  /\ mpc = "idle"
  /\ drugs = <<>>
  /\ SmpcIdle
  /\ ToolIdle
  /\ BatchIdle
  /\ RateIdle
  /\ CiteIdle
  /\ XmlIdle
  /\ NormIdle
  /\ LruIdle
  /\ LoincIdle
  /\ FetchIdle

\* lines 47-53: the handler starts both searches
SearchIndicationCall ==
  /\ mpc = "idle"
  /\ maxResults' \in {1, MaxHits}
  /\ usResult' = [status |-> "pending", value |-> <<>>]
  /\ ukResult' = [status |-> "pending", value |-> <<>>]
  /\ mpc' = "await"
  /\ UNCHANGED <<drugMap, drugOrder, mi, drugs>>
  /\ UNCHANGED notMerge

\* searchByIndication(condition, maxResults) settles
MergeUsSettles ==
  /\ mpc = "await"
  /\ usResult.status = "pending"
  /\ \/ \E hits \in HitListsUpTo(UsHitPool, MaxHits) :
          usResult' = [status |-> "fulfilled", value |-> hits]
     \/ usResult' = [status |-> "rejected", value |-> <<>>]
  /\ UNCHANGED <<ukResult, maxResults, drugMap, drugOrder, mi, mpc, drugs>>
  /\ UNCHANGED notMerge

\* searchEmc(condition) settles
MergeUkSettles ==
  /\ mpc = "await"
  /\ ukResult.status = "pending"
  /\ \/ \E hits \in HitListsUpTo(UkHitPool, MaxHits) :
          ukResult' = [status |-> "fulfilled", value |-> hits]
     \/ ukResult' = [status |-> "rejected", value |-> <<>>]
  /\ UNCHANGED <<usResult, maxResults, drugMap, drugOrder, mi, mpc, drugs>>
  /\ UNCHANGED notMerge

\* lines 50-71: allSettled resolves; no hit on either side is the error answer
MergeStart ==
  /\ mpc = "await"
  /\ usResult.status \in {"fulfilled", "rejected"}
  /\ ukResult.status \in {"fulfilled", "rejected"}
  /\ IF Len(ValueOrNone(usResult)) = 0 /\ Len(ValueOrNone(ukResult)) = 0
     THEN mpc' = "error" /\ mi' = mi
     ELSE mpc' = "us" /\ mi' = 1
  /\ UNCHANGED <<usResult, ukResult, maxResults, drugMap, drugOrder, drugs>>
  /\ UNCHANGED notMerge

\* lines 73-89, one iteration
MergeUsStep ==
  /\ mpc = "us"
  /\ mi <= Len(ValueOrNone(usResult))
  /\ drugMap' = MergeUs(drugMap, ValueOrNone(usResult)[mi])
  /\ drugOrder' = OrderAfterSet(drugOrder, drugMap, normalizeDrugName(ValueOrNone(usResult)[mi].title))
  /\ mi' = mi + 1
  /\ UNCHANGED <<usResult, ukResult, maxResults, mpc, drugs>>
  /\ UNCHANGED notMerge

\* the loop over usResults ends
MergeUsExit ==
  /\ mpc = "us"
  /\ mi > Len(ValueOrNone(usResult))
  /\ mpc' = "uk"
  /\ mi' = 1
  /\ UNCHANGED <<usResult, ukResult, maxResults, drugMap, drugOrder, drugs>>
  /\ UNCHANGED notMerge

\* lines 91-107, one iteration
MergeUkStep ==
  /\ mpc = "uk"
  /\ mi <= Len(ValueOrNone(ukResult))
  /\ drugMap' = MergeUk(drugMap, ValueOrNone(ukResult)[mi])
  /\ drugOrder' = OrderAfterSet(drugOrder, drugMap, normalizeDrugName(ValueOrNone(ukResult)[mi].name))
  /\ mi' = mi + 1
  /\ UNCHANGED <<usResult, ukResult, maxResults, mpc, drugs>>
  /\ UNCHANGED notMerge

\* lines 109-125: the loop over ukResults ends, the entries are sorted and cut
MergeReturn ==
  /\ mpc = "uk"
  /\ mi > Len(ValueOrNone(ukResult))
  /\ drugs' = SortedDrugs(drugMap, drugOrder, maxResults)
  /\ mpc' = "done"
  /\ UNCHANGED <<usResult, ukResult, maxResults, drugMap, drugOrder, mi>>
  /\ UNCHANGED notMerge

MergeNext ==
  \/ SearchIndicationCall
  \/ MergeUsSettles
  \/ MergeUkSettles
  \/ MergeStart
  \/ MergeUsStep
  \/ MergeUsExit
  \/ MergeUkStep
  \/ MergeReturn

SpecMerge == MergeInit /\ [][MergeNext]_vars

(***************************************************************************)
(* The NCBI E-utilities rateLimitedFetch.  Time is in milliseconds and      *)
(* advances in steps of 100 ms, the shorter of the two delays.              *)
(***************************************************************************)
MaxCalls == 4
MaxClock == 2500

REQUEST_DELAY_MS_NCBI == 300

\* line 29: const minDelay = apiKey ? 100 : REQUEST_DELAY_MS
MinDelay == IF apiKey THEN 100 ELSE REQUEST_DELAY_MS_NCBI

RateInit ==
  /\ apiKey \in BOOLEAN
  /\ ncbiLastRequestTime = 0
  /\ clock = 1000
  /\ timers = <<>>
  /\ fetchStarts = <<>>
  /\ ncalls = 0
  /\ SmpcIdle
  /\ ToolIdle
  /\ BatchIdle
  /\ MergeIdle
  /\ CiteIdle
  /\ XmlIdle
  /\ NormIdle
  /\ LruIdle
  /\ LoincIdle
  /\ FetchIdle

\* lines 29-43 up to the first await: either the call goes to sleep at line 34,
\* or it sets lastRequestTime and calls fetch at once
RateLimitedFetchCall ==
  /\ ncalls < MaxCalls
  /\ ncalls' = ncalls + 1
  /\ LET elapsed == clock - ncbiLastRequestTime
     IN IF elapsed < MinDelay
        THEN /\ timers' = Append(timers, clock + (MinDelay - elapsed))
             /\ UNCHANGED <<ncbiLastRequestTime, fetchStarts>>
        ELSE /\ ncbiLastRequestTime' = clock
             /\ fetchStarts' = Append(fetchStarts, clock)
             /\ UNCHANGED timers
  /\ UNCHANGED <<apiKey, clock>>
  /\ UNCHANGED notRate

\* lines 34-43: the timer of the longest sleeper fires, the call goes on
TimerFires ==
  /\ Len(timers) > 0
  /\ Head(timers) <= clock
  /\ timers' = Tail(timers)
  /\ ncbiLastRequestTime' = clock
  /\ fetchStarts' = Append(fetchStarts, clock)
  /\ UNCHANGED <<apiKey, clock, ncalls>>
  /\ UNCHANGED notRate

\* time passes; a timer that is due fires before time goes on
Tick ==
  /\ clock < MaxClock
  /\ \A i \in 1..Len(timers) : timers[i] > clock
  /\ clock' = clock + 100
  /\ UNCHANGED <<apiKey, ncbiLastRequestTime, timers, fetchStarts, ncalls>>
  /\ UNCHANGED notRate

RateNext ==
  \/ RateLimitedFetchCall
  \/ TimerFires
  \/ Tick

SpecRate == RateInit /\ [][RateNext]_vars

(***************************************************************************)
(* The citation formatters.                                                 *)
(***************************************************************************)
MaxAuthors == 9

\* String.prototype.split with a one-character separator
Split(s, sep) ==
  LET cuts == {0} \cup {i \in 1..Len(s) : CharAt(s, i) = sep} \cup {Len(s) + 1}
      nth(k) == CHOOSE c \in cuts : Cardinality({d \in cuts : d < c}) = k - 1
  IN [k \in 1..(Cardinality(cuts) - 1) |-> SubSeq(s, nth(k) + 1, nth(k + 1) - 1)]

RECURSIVE Join(_, _)
\* Array.prototype.join
Join(parts, sep) ==
  IF Len(parts) = 0 THEN ""
  ELSE IF Len(parts) = 1 THEN parts[1]
  ELSE parts[1] \o sep \o Join(Tail(parts), sep)

\* p[0] in a template string
FirstChar(p) == IF Len(p) = 0 THEN "undefined" ELSE CharAt(p, 1)

\* Array.prototype.slice(1)
Rest(parts) == SubSeq(parts, 2, Len(parts))

EndsWith(s, t) == Len(s) >= Len(t) /\ SubSeq(s, Len(s) - Len(t) + 1, Len(s)) = t

StartsWith(s, t) == Len(s) >= Len(t) /\ SubSeq(s, 1, Len(t)) = t

\* lines 104-109: `${last}, ${initials}`, initials with a period each, joined by a space
ApaAuthor(a) ==
  LET parts == Split(a, " ")
      initials == Join([i \in 1..(Len(parts) - 1) |-> FirstChar(parts[i + 1]) \o "."], " ")
  IN parts[1] \o ", " \o initials

\* every author up to eight
ApaListsAllUpToEight(n) == n <= 8

\* line 103: info.authors.length <= 7
ApaListsAll(n) == n <= 7

formatApa(i) ==
  LET n == Len(i.authors)
      authorStr ==
        IF n = 0 THEN ""
        ELSE IF ApaListsAll(n)
             THEN Join([k \in 1..n |-> ApaAuthor(i.authors[k])], ", ")
        ELSE Join([k \in 1..6 |-> ApaAuthor(i.authors[k])], ", ")
               \o ", ... " \o ApaAuthor(i.authors[n])
      yearPart == IF i.year # "" THEN " (" \o i.year \o ")." ELSE "."
      titlePart == IF EndsWith(i.title, ".") THEN " " \o i.title ELSE " " \o i.title \o "."
      journalPart == " *" \o i.journal \o "*"
      volPart == IF i.volume # "" THEN ", *" \o i.volume \o "*" ELSE ""
      issuePart == IF i.issue # "" THEN "(" \o i.issue \o ")" ELSE ""
      pagesPart == IF i.pages # "" THEN ", " \o i.pages ELSE ""
      doiPart == IF i.doi # "" THEN " https://doi.org/" \o i.doi ELSE ""
  IN Trim(authorStr \o yearPart \o titlePart \o journalPart \o volPart \o issuePart
            \o pagesPart \o "." \o doiPart)

\* lines 138-143: `${last} ${initials}`, initials joined by nothing
VancouverAuthor(a) ==
  LET parts == Split(a, " ")
      initials == Join([i \in 1..(Len(parts) - 1) |-> FirstChar(parts[i + 1])], "")
  IN parts[1] \o " " \o initials

\* every author up to seven
VancouverListsAllUpToSeven(n) == n <= 7

\* line 137: info.authors.length <= 6
VancouverListsAll(n) == n <= 6

formatVancouver(i) ==
  LET n == Len(i.authors)
      authorStr ==
        IF n = 0 THEN ""
        ELSE IF VancouverListsAll(n)
             THEN Join([k \in 1..n |-> VancouverAuthor(i.authors[k])], ", ")
        ELSE Join([k \in 1..6 |-> VancouverAuthor(i.authors[k])], ", ") \o ", et al"
      titlePart == IF EndsWith(i.title, ".") THEN " " \o i.title ELSE " " \o i.title \o "."
      journalPart == " " \o i.journal \o "."
      yearPart == IF i.year # "" THEN " " \o i.year ELSE ""
      volPart == IF i.volume # "" THEN ";" \o i.volume ELSE ""
      issuePart == IF i.issue # "" THEN "(" \o i.issue \o ")" ELSE ""
      pagesPart == IF i.pages # "" THEN ":" \o i.pages ELSE ""
      doiPart == IF i.doi # "" THEN " doi:" \o i.doi ELSE ""
  IN Trim(authorStr \o "." \o titlePart \o journalPart \o yearPart \o volPart \o issuePart
            \o pagesPart \o "." \o doiPart)

\* lines 166-171: `${last}, ${initials}`, initials with a period each, joined by nothing
HarvardAuthor(a) ==
  LET parts == Split(a, " ")
      initials == Join([i \in 1..(Len(parts) - 1) |-> FirstChar(parts[i + 1]) \o "."], "")
  IN parts[1] \o ", " \o initials

\* every author up to four
HarvardListsAllUpToFour(n) == n <= 4

\* line 165: info.authors.length <= 3
HarvardListsAll(n) == n <= 3

formatHarvard(i) ==
  LET n == Len(i.authors)
      authorStr ==
        IF n = 0 THEN ""
        ELSE IF HarvardListsAll(n)
             THEN Join([k \in 1..n |-> HarvardAuthor(i.authors[k])], ", ")
        ELSE HarvardAuthor(i.authors[1]) \o " et al."
      yearPart == IF i.year # "" THEN " " \o i.year \o "." ELSE "."
      titlePart == " '" \o i.title \o "'."
      journalPart == " *" \o i.journal \o "*"
      volPart == IF i.volume # "" THEN ", " \o i.volume ELSE ""
      issuePart == IF i.issue # "" THEN "(" \o i.issue \o ")" ELSE ""
      pagesPart == IF i.pages # "" THEN ", pp. " \o i.pages ELSE ""
      doiPart == IF i.doi # "" THEN ". doi:" \o i.doi ELSE ""
  IN Trim(authorStr \o yearPart \o titlePart \o journalPart \o volPart \o issuePart
            \o pagesPart \o doiPart)

\* lines 196-199: `${parts[0]}, ${parts.slice(1).join(" ")}`
BibtexAuthor(a) ==
  LET parts == Split(a, " ")
  IN parts[1] \o ", " \o Join(Rest(parts), " ")

\* a list cut after six authors
BibtexAuthorsCut(authors) ==
  Join([k \in 1..Min(6, Len(authors)) |-> BibtexAuthor(authors[k])], " and ")

\* lines 196-199: info.authors.map(...).join(" and ")
BibtexAuthors(authors) ==
  Join([k \in 1..Len(authors) |-> BibtexAuthor(authors[k])], " and ")

formatBibtex(i) ==
  LET key == IF Len(i.authors) > 0
             THEN ToLowerCase(Split(i.authors[1], " ")[1]) \o i.year
             ELSE "pmid" \o i.pmid
      lines == << "@article{" \o key \o ",",
                  "  author  = {" \o BibtexAuthors(i.authors) \o "},",
                  "  title   = {" \o i.title \o "},",
                  "  journal = {" \o i.journal \o "},",
                  "  year    = {" \o i.year \o "}," >>
                 \o (IF i.volume # "" THEN <<"  volume  = {" \o i.volume \o "},">> ELSE <<>>)
                 \o (IF i.issue # "" THEN <<"  number  = {" \o i.issue \o "},">> ELSE <<>>)
                 \o (IF i.pages # "" THEN <<"  pages   = {" \o i.pages \o "},">> ELSE <<>>)
                 \o (IF i.doi # "" THEN <<"  doi     = {" \o i.doi \o "},">> ELSE <<>>)
                 \o << "  pmid    = {" \o i.pmid \o "},", "}" >>
  IN Join(lines, "\n")

\* the authors of the articles formatted: the string parseAuthors builds for each,
\* with the surname and the given names it was built from
AuthorRoster ==
  << [name |-> "Smith John A",  surname |-> "Smith",   given |-> <<"John", "A">>],
     [name |-> "Lee K",         surname |-> "Lee",     given |-> <<"K">>],
     [name |-> "Garcia Maria",  surname |-> "Garcia",  given |-> <<"Maria">>],
     [name |-> "Chen W",        surname |-> "Chen",    given |-> <<"W">>],
     [name |-> "Patel R K",     surname |-> "Patel",   given |-> <<"R", "K">>],
     [name |-> "Okafor N",      surname |-> "Okafor",  given |-> <<"N">>],
     [name |-> "Ivanov D",      surname |-> "Ivanov",  given |-> <<"D">>],
     [name |-> "Tanaka H",      surname |-> "Tanaka",  given |-> <<"H">>],
     [name |-> "Murphy S",      surname |-> "Murphy",  given |-> <<"S">>],
     [name |-> "Zhou L",        surname |-> "Zhou",    given |-> <<"L">>],
     [name |-> "Brown T",       surname |-> "Brown",   given |-> <<"T">>],
     [name |-> "Khan A",        surname |-> "Khan",    given |-> <<"A">>] >>

\* n authors of the roster, from the one after position 'from' on
RosterSlice(from, n) == [k \in 1..n |-> AuthorRoster[from + k]]

Styles == {"apa", "vancouver", "harvard", "bibtex"}

CiteInit ==
  /\ \E n \in 0..MaxAuthors : \E from \in 0..2 :
       \E year \in {"", "2020"} : \E doi \in {"", "10.1000/xyz"} : \E title \in {"A trial", "A trial."} :
         info = [authors |-> [k \in 1..n |-> RosterSlice(from, n)[k].name],
                 title |-> title, journal |-> "Lancet", year |-> year,
                 volume |-> "12", issue |-> "", pages |-> "1-9", doi |-> doi, pmid |-> "123"]
  /\ style = "none"
  /\ citation = ""
  /\ SmpcIdle
  /\ ToolIdle
  /\ BatchIdle
  /\ MergeIdle
  /\ RateIdle
  /\ XmlIdle
  /\ NormIdle
  /\ LruIdle
  /\ LoincIdle
  /\ FetchIdle

\* lines 278-285: formatters[params.style](info)
FormatCitation ==
  /\ style = "none"
  /\ \E st \in Styles :
       /\ style' = st
       /\ citation' = CASE st = "apa" -> formatApa(info)
                        [] st = "vancouver" -> formatVancouver(info)
                        [] st = "harvard" -> formatHarvard(info)
                        [] st = "bibtex" -> formatBibtex(info)
  /\ UNCHANGED info
  /\ UNCHANGED notCite

CiteNext == FormatCitation

SpecCite == CiteInit /\ [][CiteNext]_vars

(***************************************************************************)
(* Parsed XML values and the extractors of lib/cache.ts.  fast-xml-parser  *)
(* hands back strings, numbers, objects (an ordered list of key/value      *)
(* entries, attributes under keys that start with "@_", the element's own  *)
(* text under "#text") and arrays; the extractors take `unknown`, so null  *)
(* and undefined are values too.                                           *)
(***************************************************************************)
JsString(s) == [kind |-> "string", str |-> s]
JsNumber(n) == [kind |-> "number", num |-> n]
JsNull == [kind |-> "null"]
JsUndefined == [kind |-> "undefined"]
JsObject(entries) == [kind |-> "object", entries |-> entries]
JsArray(items) == [kind |-> "array", items |-> items]
Entry(k, v) == [key |-> k, value |-> v]

DigitChar(d) == SubSeq("0123456789", d + 1, d + 1)

RECURSIVE NumberToString(_)
\* String(n) of a non-negative integer
NumberToString(n) ==
  IF n < 10 THEN DigitChar(n) ELSE NumberToString(n \div 10) \o DigitChar(n % 10)

\* Object.entries(node): an array's entries are its elements under their indices
Entries(n) ==
  CASE n.kind = "object" -> n.entries
    [] n.kind = "array" -> [i \in 1..Len(n.items) |-> Entry(NumberToString(i - 1), n.items[i])]
    [] OTHER -> <<>>

\* key in obj
HasKey(n, k) == \E i \in 1..Len(Entries(n)) : Entries(n)[i].key = k

\* obj[key]: undefined when the key is absent, or when obj is a string or a number
Field(n, k) ==
  IF HasKey(n, k)
  THEN Entries(n)[CHOOSE i \in 1..Len(Entries(n)) : Entries(n)[i].key = k].value
  ELSE JsUndefined

\* the truthiness `if (x)` and `!x` test
Truthy(v) ==
  CASE v.kind = "string" -> v.str # ""
    [] v.kind = "number" -> v.num # 0
    [] v.kind \in {"null", "undefined"} -> FALSE
    [] OTHER -> TRUE

RECURSIVE JsToString(_)
\* String(value)
JsToString(v) ==
  CASE v.kind = "string" -> v.str
    [] v.kind = "number" -> NumberToString(v.num)
    [] v.kind = "null" -> "null"
    [] v.kind = "undefined" -> "undefined"
    [] v.kind = "object" -> "[object Object]"
    [] v.kind = "array" ->
         Join([i \in 1..Len(v.items) |->
                 IF v.items[i].kind \in {"null", "undefined"} THEN ""
                 ELSE JsToString(v.items[i])], ",")

\* a mutant of IsAttribute: attribute fields are read like child elements
IsAttributeNever(key) == FALSE

\* key.startsWith("@_")
IsAttribute(key) == StartsWith(key, "@_")

RECURSIVE extractText(_)
extractText(node) ==
  CASE node.kind = "string" -> node.str
    [] node.kind = "number" -> NumberToString(node.num)
    [] node.kind \in {"null", "undefined"} -> ""
    [] OTHER ->
         IF HasKey(node, "#text") THEN JsToString(Field(node, "#text"))
         ELSE LET children == SelectSeq(Entries(node), LAMBDA e : ~IsAttribute(e.key))
                  parts == [i \in 1..Len(children) |->
                              LET value == children[i].value
                              IN IF value.kind = "array"
                                 THEN Join([j \in 1..Len(value.items) |->
                                              extractText(value.items[j])], " ")
                                 ELSE extractText(value)]
              IN Trim(Join(parts, " "))

ensureArray(val) ==
  IF val.kind \in {"undefined", "null"} THEN <<>>
  ELSE IF val.kind = "array" THEN val.items ELSE <<val>>

\* the name parseAuthors builds from one Author element
AuthorName(author) ==
  LET last == IF Truthy(Field(author, "LastName"))
              THEN JsToString(Field(author, "LastName")) ELSE ""
      first == IF Truthy(Field(author, "ForeName"))
               THEN JsToString(Field(author, "ForeName")) ELSE ""
      initials == IF Truthy(Field(author, "Initials"))
                  THEN JsToString(Field(author, "Initials")) ELSE ""
  IN IF last # "" /\ first # "" THEN last \o " " \o first
     ELSE IF last # "" /\ initials # "" THEN last \o " " \o initials
     ELSE IF Truthy(Field(author, "CollectiveName"))
          THEN JsToString(Field(author, "CollectiveName"))
     ELSE IF last # "" THEN last ELSE first

parseAuthors(authorList) ==
  IF ~Truthy(authorList) THEN <<>>
  ELSE LET authors == ensureArray(Field(authorList, "Author"))
       IN SelectSeq([i \in 1..Len(authors) |-> AuthorName(authors[i])],
                    LAMBDA name : name # "")

parseAbstractSections(abstractNode) ==
  IF ~Truthy(abstractNode) THEN <<>>
  ELSE LET textNodes == Field(abstractNode, "AbstractText")
       IN IF ~Truthy(textNodes) THEN <<>>
          ELSE LET sections == ensureArray(textNodes)
               IN [i \in 1..Len(sections) |->
                     LET section == sections[i]
                     IN IF section.kind = "string"
                        THEN [label |-> "", text |-> section.str]
                        ELSE [label |-> IF Truthy(Field(section, "@_Label"))
                                        THEN JsToString(Field(section, "@_Label"))
                                        ELSE "",
                              text |-> extractText(section)]]

RECURSIVE Flatten(_)
\* parts.push(...list) over a sequence of lists
Flatten(lists) ==
  IF Len(lists) = 0 THEN <<>> ELSE Head(lists) \o Flatten(Tail(lists))

\* a mutant of extractJatsContent: the paragraphs of the node only, nested
\* sections left out
extractJatsContentFlat(node) ==
  LET paragraphs == ensureArray(Field(node, "p"))
  IN Join([j \in 1..Len(paragraphs) |-> extractText(paragraphs[j])], "\n\n")

RECURSIVE extractJatsContent(_)
extractJatsContent(node) ==
  IF ~Truthy(node) \/ node.kind \notin {"object", "array"} THEN extractText(node)
  ELSE LET entries == Entries(node)
           pushed(e) ==
             IF e.key = "title" \/ IsAttribute(e.key) THEN <<>>
             ELSE IF e.key = "p"
                  THEN LET paragraphs == ensureArray(e.value)
                       IN [j \in 1..Len(paragraphs) |-> extractText(paragraphs[j])]
             ELSE IF e.key = "sec"
                  THEN LET subsections == ensureArray(e.value)
                       IN Flatten([j \in 1..Len(subsections) |->
                            LET sub == subsections[j]
                            IN (IF Truthy(Field(sub, "title"))
                                THEN <<"\n### " \o extractText(Field(sub, "title"))>>
                                ELSE <<>>)
                               \o <<extractJatsContent(sub)>>])
             ELSE <<>>
       IN Join(Flatten([i \in 1..Len(entries) |-> pushed(entries[i])]), "\n\n")

parseJatsSections(body) ==
  IF ~Truthy(body) THEN <<>>
  ELSE LET sections == ensureArray(Field(body, "sec"))
       IN [i \in 1..Len(sections) |->
             LET s == sections[i]
             IN [title |-> IF Truthy(Field(s, "title"))
                           THEN extractText(Field(s, "title")) ELSE "",
                 content |-> extractJatsContent(s)]]

\* typeof eid === "object" && eid["@_EIdType"] === "doi"
IsDoiEntry(eid) ==
  /\ eid.kind \in {"object", "array"}
  /\ Field(eid, "@_EIdType").kind = "string"
  /\ Field(eid, "@_EIdType").str = "doi"

\* get_abstract: the DOI of the article
AbstractDoi(articleData) ==
  LET elocationIds == Field(articleData, "ELocationID")
  IN IF ~Truthy(elocationIds) THEN ""
     ELSE LET ids == IF elocationIds.kind = "array" THEN elocationIds.items
                     ELSE <<elocationIds>>
              hits == {i \in 1..Len(ids) : IsDoiEntry(ids[i])}
          IN IF hits = {} THEN ""
             ELSE extractText(ids[CHOOSE i \in hits : \A j \in hits : i <= j])

\* format_citation: the DOI of the article
CiteDoi(articleData) ==
  LET elocationIds == Field(articleData, "ELocationID")
  IN IF ~Truthy(elocationIds) THEN ""
     ELSE LET ids == IF elocationIds.kind = "array" THEN elocationIds.items
                     ELSE <<elocationIds>>
              hits == {i \in 1..Len(ids) : IsDoiEntry(ids[i])}
          IN IF hits = {} THEN ""
             ELSE extractText(ids[CHOOSE i \in hits : \A j \in hits : i <= j])

(***************************************************************************)
(* The parsed values the extractors are run on.                            *)
(***************************************************************************)
MaxDepth == 2
MaxOccurrences == 3

\* an element with its own text: <AbstractText Label="L"> c</AbstractText>
TextNode == JsObject(<<Entry("@_Label", JsString("L")), Entry("#text", JsString(" c"))>>)

TextLeaves ==
  {JsString("a"), JsString(" b "), JsString(""), JsNumber(12), JsNull, JsUndefined,
   TextNode, JsObject(<<Entry("#text", JsNumber(5))>>)}

RECURSIVE Trees(_)
\* the values of nesting depth up to d
Trees(d) ==
  IF d = 0 THEN TextLeaves
  ELSE LET sub == Trees(d - 1)
       IN TextLeaves
          \cup sub
          \cup {JsObject(<<Entry("@_Label", JsString("L")), Entry("i", v), Entry("sup", l)>>) :
                  v \in sub, l \in TextLeaves}
          \cup {JsObject(<<Entry("p", JsArray(<<v, l>>))>>) : v \in sub, l \in TextLeaves}
          \cup {JsArray(<<>>), JsObject(<<Entry("b", JsArray(<<>>))>>)}

\* the sequences of length 0..n over a pool
OccurrencesUpTo(pool, n) == UNION {[1..k -> pool] : k \in 0..n}

\* the ways the parser hands over the occurrences of one child element:
\* no field, the value itself, or a list
Serialised(key, occ) ==
  {JsObject(<<Entry(key, JsArray(occ))>>)}
  \cup (IF Len(occ) = 0 THEN {JsObject(<<>>)} ELSE {})
  \cup (IF Len(occ) = 1 THEN {JsObject(<<Entry(key, occ[1])>>)} ELSE {})

AuthorPool ==
  {JsObject(<<Entry("LastName", JsString("Smith")), Entry("ForeName", JsString("John A")),
              Entry("Initials", JsString("JA"))>>),
   JsObject(<<Entry("LastName", JsString("Lee")), Entry("Initials", JsString("K"))>>),
   JsObject(<<Entry("CollectiveName", JsString("WHO Study Group"))>>),
   JsObject(<<Entry("LastName", JsString("Chen"))>>),
   JsObject(<<Entry("Initials", JsString("K")),
              Entry("AffiliationInfo", JsString("Leiden"))>>)}

AbstractTextPool ==
  {JsString("Plain text"),
   JsString(""),
   JsObject(<<Entry("#text", JsString("We did")), Entry("@_Label", JsString("METHODS"))>>),
   JsObject(<<Entry("i", JsString("in vivo")), Entry("sup", JsNumber(2)),
              Entry("@_Label", JsString("RESULTS"))>>)}

SecPool ==
  {JsObject(<<Entry("title", JsString("Intro")), Entry("p", JsString("One"))>>),
   JsObject(<<Entry("title", JsString("Methods")),
              Entry("p", JsArray(<<JsString("A"), JsString("B")>>))>>),
   JsObject(<<Entry("title", JsString("Results")),
              Entry("sec", JsArray(<<JsObject(<<Entry("title", JsString("Sub")),
                                               Entry("p", JsString("Deep"))>>)>>))>>),
   JsObject(<<Entry("title", JsString("Discussion")),
              Entry("p", JsString("Top")),
              Entry("sec", JsArray(<<
                JsObject(<<Entry("title", JsString("Limits")),
                           Entry("p", JsArray(<<JsString("L1"), JsString("L2")>>)),
                           Entry("sec", JsArray(<<
                             JsObject(<<Entry("title", JsString("Bias")),
                                        Entry("p", JsString("Deep2"))>>)>>))>>),
                JsObject(<<Entry("@_id", JsString("s4b")),
                           Entry("title", JsString("Strengths")),
                           Entry("p", JsString("S1"))>>)>>))>>),
   JsString("")}

ELocationIDPool ==
  {JsObject(<<Entry("#text", JsString("S0140-6736")), Entry("@_EIdType", JsString("pii"))>>),
   JsObject(<<Entry("#text", JsString("10.1000/xyz")), Entry("@_EIdType", JsString("doi"))>>),
   JsObject(<<Entry("#text", JsString("10.2000/abc")), Entry("@_EIdType", JsString("doi"))>>),
   JsObject(<<Entry("#text", JsString("doi:10.1000/xyz")), Entry("@_EIdType", JsString("doi"))>>),
   JsObject(<<Entry("#text", JsString("DOI:10.2000/abc")), Entry("@_EIdType", JsString("doi"))>>),
   JsString("10.3000/bare")}

parseMeshTerms(meshList) ==
  IF ~Truthy(meshList) THEN <<>>
  ELSE LET headings == ensureArray(Field(meshList, "MeshHeading"))
       IN SelectSeq([i \in 1..Len(headings) |->
                       extractText(Field(headings[i], "DescriptorName"))],
                    LAMBDA term : term # "")

parseKeywords(keywordList) ==
  IF ~Truthy(keywordList) THEN <<>>
  ELSE LET keywords == ensureArray(Field(keywordList, "Keyword"))
       IN SelectSeq([i \in 1..Len(keywords) |-> extractText(keywords[i])],
                    LAMBDA keyword : keyword # "")

\* s.match(/\d{4}/)?.[0] ?? ""
FirstFourDigits(s) ==
  LET starts == {i \in 1..(Len(s) - 3) : \A k \in 0..3 : CharAt(s, i + k) \in Digits}
  IN IF starts = {} THEN ""
     ELSE LET i == CHOOSE a \in starts : \A b \in starts : a <= b
          IN SubSeq(s, i, i + 3)

\* x ? String(x) : ""
StringOrEmpty(x) == IF Truthy(x) THEN JsToString(x) ELSE ""

\* get_abstract: the PMC id among the article ids
AbstractPmcId(pubmedData) ==
  LET articleIdList == Field(Field(pubmedData, "ArticleIdList"), "ArticleId")
  IN IF ~Truthy(articleIdList) THEN ""
     ELSE LET ids == IF articleIdList.kind = "array" THEN articleIdList.items
                     ELSE <<articleIdList>>
              hits == {i \in 1..Len(ids) :
                         /\ ids[i].kind \in {"object", "array"}
                         /\ Field(ids[i], "@_IdType").kind = "string"
                         /\ Field(ids[i], "@_IdType").str = "pmc"}
          IN IF hits = {} THEN ""
             ELSE extractText(ids[CHOOSE i \in hits : \A j \in hits : i <= j])

\* !articles || (Array.isArray(articles) && articles.length === 0)
NoArticles(articles) ==
  ~Truthy(articles) \/ (articles.kind = "array" /\ Len(articles.items) = 0)

\* a mutant of NoArticleData: an entry without article data is not rejected
NoArticleDataNever(articleData) == FALSE

\* !articleData
NoArticleData(articleData) == ~Truthy(articleData)

\* { content: [{ type: "text", text }], isError: true }
AbstractError(message) == [isError |-> TRUE, text |-> message, record |-> Null]

\* the get_abstract handler after efetch answered with the document `parsed`
\* parses to.  A result that is not an error carries the FullAbstract that
\* the handler serialises with JSON.stringify; the record is kept as it is.
GetAbstract(parsed, pmid, structured) ==
  LET articles == Field(Field(parsed, "PubmedArticleSet"), "PubmedArticle")
  IN IF NoArticles(articles)
     THEN AbstractError("No article found for PMID " \o pmid)
     ELSE
       LET article == IF articles.kind = "array" THEN articles.items[1] ELSE articles
           medlineCitation == Field(article, "MedlineCitation")
           articleData == Field(medlineCitation, "Article")
           pubmedData == Field(article, "PubmedData")
       IN IF NoArticleData(articleData)
          THEN AbstractError("No article data found for PMID " \o pmid)
          ELSE
            LET journal == Field(articleData, "Journal")
                journalIssue == Field(journal, "JournalIssue")
                pubDate == Field(journalIssue, "PubDate")
                abstractSections == parseAbstractSections(Field(articleData, "Abstract"))
                finalSections ==
                  IF ~structured /\ Len(abstractSections) > 0
                  THEN <<[label |-> "",
                          text |-> Join([i \in 1..Len(abstractSections) |->
                                           abstractSections[i].text], " ")]>>
                  ELSE abstractSections
            IN [isError |-> FALSE,
                text |-> "",
                record |-> Just(
                  [pmid |-> pmid,
                   title |-> extractText(Field(articleData, "ArticleTitle")),
                   authors |-> parseAuthors(Field(articleData, "AuthorList")),
                   journal |-> extractText(Field(journal, "Title")),
                   year |-> IF Truthy(Field(pubDate, "Year"))
                            THEN JsToString(Field(pubDate, "Year"))
                            ELSE FirstFourDigits(extractText(Field(pubDate, "MedlineDate"))),
                   doi |-> AbstractDoi(articleData),
                   volume |-> StringOrEmpty(Field(journalIssue, "Volume")),
                   issue |-> StringOrEmpty(Field(journalIssue, "Issue")),
                   pages |-> StringOrEmpty(Field(Field(articleData, "Pagination"), "MedlinePgn")),
                   abstract_sections |-> finalSections,
                   keywords |-> parseKeywords(Field(medlineCitation, "KeywordList")),
                   mesh_terms |-> parseMeshTerms(Field(medlineCitation, "MeshHeadingList")),
                   pmc_id |-> AbstractPmcId(pubmedData)])]

\* the entries of a PubmedArticleSet: with article data, without, and empty
PubmedArticlePool ==
  {JsObject(<<
     Entry("MedlineCitation", JsObject(<<
       Entry("PMID", JsNumber(123)),
       Entry("Article", JsObject(<<
         Entry("Journal", JsObject(<<
           Entry("JournalIssue", JsObject(<<
             Entry("Volume", JsNumber(12)),
             Entry("PubDate", JsObject(<<Entry("Year", JsNumber(2020))>>))>>)),
           Entry("Title", JsString("Lancet"))>>)),
         Entry("ArticleTitle", JsString("A trial")),
         Entry("Pagination", JsObject(<<Entry("MedlinePgn", JsString("1-9"))>>)),
         Entry("ELocationID", JsObject(<<Entry("#text", JsString("10.1000/xyz")),
                                         Entry("@_EIdType", JsString("doi"))>>)),
         Entry("Abstract", JsObject(<<
           Entry("AbstractText", JsArray(<<
             JsObject(<<Entry("#text", JsString("Why")),
                        Entry("@_Label", JsString("BACKGROUND"))>>),
             JsObject(<<Entry("#text", JsString("We did")),
                        Entry("@_Label", JsString("METHODS"))>>)>>))>>)),
         Entry("AuthorList", JsObject(<<
           Entry("Author", JsArray(<<
             JsObject(<<Entry("LastName", JsString("Smith")),
                        Entry("ForeName", JsString("John"))>>)>>))>>))>>)),
       Entry("MeshHeadingList", JsObject(<<
         Entry("MeshHeading", JsArray(<<
           JsObject(<<Entry("DescriptorName",
                            JsObject(<<Entry("#text", JsString("Humans")),
                                       Entry("@_UI", JsString("D006801"))>>))>>)>>))>>)),
       Entry("KeywordList", JsObject(<<
         Entry("Keyword", JsArray(<<JsString("trial"), JsString("")>>))>>))>>)),
     Entry("PubmedData", JsObject(<<
       Entry("ArticleIdList", JsObject(<<
         Entry("ArticleId", JsArray(<<
           JsObject(<<Entry("#text", JsNumber(123)), Entry("@_IdType", JsString("pubmed"))>>),
           JsObject(<<Entry("#text", JsString("PMC77")),
                      Entry("@_IdType", JsString("pmc"))>>)>>))>>))>>))>>),
   JsObject(<<
     Entry("MedlineCitation", JsObject(<<
       Entry("Article", JsObject(<<
         Entry("Journal", JsObject(<<
           Entry("JournalIssue", JsObject(<<
             Entry("PubDate", JsObject(<<Entry("MedlineDate", JsString("Spring 2019"))>>))>>))>>)),
         Entry("ArticleTitle", JsString("B"))>>))>>))>>),
   JsObject(<<Entry("MedlineCitation", JsObject(<<Entry("PMID", JsNumber(5))>>))>>),
   JsObject(<<Entry("MedlineCitation", JsObject(<<Entry("Article", JsString(""))>>))>>),
   JsString("")}

\* the documents efetch can answer with: no wrapper element, an empty
\* wrapper, and a wrapper with 0..MaxOccurrences entries
PubmedDocuments ==
  {JsObject(<<>>), JsObject(<<Entry("PubmedArticleSet", JsString(""))>>)}
  \cup {JsObject(<<Entry("PubmedArticleSet", set)>>) :
          set \in UNION {Serialised("PubmedArticle", occ) :
                           occ \in OccurrencesUpTo(PubmedArticlePool, MaxOccurrences)}}

XmlKinds == {"tree", "authorList", "abstract", "body", "article", "document"}

XmlInputs(k) ==
  CASE k = "tree" -> Trees(MaxDepth)
    [] k = "authorList" ->
         {JsUndefined} \cup UNION {Serialised("Author", occ) :
                                     occ \in OccurrencesUpTo(AuthorPool, MaxOccurrences)}
    [] k = "abstract" ->
         {JsUndefined} \cup UNION {Serialised("AbstractText", occ) :
                                     occ \in OccurrencesUpTo(AbstractTextPool, MaxOccurrences)}
    [] k = "body" ->
         {JsUndefined} \cup UNION {Serialised("sec", occ) :
                                     occ \in OccurrencesUpTo(SecPool, MaxOccurrences)}
    [] k = "article" ->
         UNION {Serialised("ELocationID", occ) :
                  occ \in OccurrencesUpTo(ELocationIDPool, MaxOccurrences)}
    [] k = "document" -> PubmedDocuments

XmlInit ==
  /\ xmlKind \in XmlKinds
  /\ xmlNode \in XmlInputs(xmlKind)
  /\ xmlCall = "none"
  /\ xmlText = ""
  /\ xmlList = <<>>
  /\ xmlResult = [isError |-> FALSE, text |-> "", record |-> <<>>]
  /\ SmpcIdle
  /\ ToolIdle
  /\ BatchIdle
  /\ MergeIdle
  /\ RateIdle
  /\ CiteIdle
  /\ NormIdle
  /\ LruIdle
  /\ LoincIdle
  /\ FetchIdle

ExtractTextCall ==
  /\ xmlCall = "none"
  /\ xmlKind = "tree"
  /\ xmlCall' = "extractText"
  /\ xmlText' = extractText(xmlNode)
  /\ UNCHANGED <<xmlKind, xmlNode, xmlList, xmlResult, notXml>>

ParseAuthorsCall ==
  /\ xmlCall = "none"
  /\ xmlKind = "authorList"
  /\ xmlCall' = "parseAuthors"
  /\ xmlList' = parseAuthors(xmlNode)
  /\ UNCHANGED <<xmlKind, xmlNode, xmlText, xmlResult, notXml>>

ParseAbstractSectionsCall ==
  /\ xmlCall = "none"
  /\ xmlKind = "abstract"
  /\ xmlCall' = "parseAbstractSections"
  /\ xmlList' = parseAbstractSections(xmlNode)
  /\ UNCHANGED <<xmlKind, xmlNode, xmlText, xmlResult, notXml>>

ParseJatsSectionsCall ==
  /\ xmlCall = "none"
  /\ xmlKind = "body"
  /\ xmlCall' = "parseJatsSections"
  /\ xmlList' = parseJatsSections(xmlNode)
  /\ UNCHANGED <<xmlKind, xmlNode, xmlText, xmlResult, notXml>>

GetAbstractDoi ==
  /\ xmlCall = "none"
  /\ xmlKind = "article"
  /\ xmlCall' = "get_abstract"
  /\ xmlText' = AbstractDoi(xmlNode)
  /\ UNCHANGED <<xmlKind, xmlNode, xmlList, xmlResult, notXml>>

FormatCitationDoi ==
  /\ xmlCall = "none"
  /\ xmlKind = "article"
  /\ xmlCall' = "format_citation"
  /\ xmlText' = CiteDoi(xmlNode)
  /\ UNCHANGED <<xmlKind, xmlNode, xmlList, xmlResult, notXml>>

GetAbstractCall ==
  /\ xmlCall = "none"
  /\ xmlKind = "document"
  /\ \E structured \in BOOLEAN :
       /\ xmlCall' = "registerAbstractTool"
       /\ xmlResult' = GetAbstract(xmlNode, "123", structured)
  /\ UNCHANGED <<xmlKind, xmlNode, xmlText, xmlList, notXml>>

\* efetch throws: the catch block answers
GetAbstractFetchFails ==
  /\ xmlCall = "none"
  /\ xmlKind = "document"
  /\ xmlCall' = "registerAbstractTool: catch"
  /\ xmlResult' = AbstractError("Error fetching abstract: " \o "NCBI API error: 500 Internal Server Error")
  /\ UNCHANGED <<xmlKind, xmlNode, xmlText, xmlList, notXml>>

XmlNext ==
  \/ ExtractTextCall
  \/ ParseAuthorsCall
  \/ ParseAbstractSectionsCall
  \/ ParseJatsSectionsCall
  \/ GetAbstractDoi
  \/ FormatCitationDoi
  \/ GetAbstractCall
  \/ GetAbstractFetchFails

SpecXml == XmlInit /\ [][XmlNext]_vars

(***************************************************************************)
(* normalizeDrugName on the titles the label searches return.              *)
(***************************************************************************)
\* the parts a product title is put together from: active substance, salt,
\* dosage form, manufacturer
TitleSubstances == {"METFORMIN", "ATORVASTATIN", "Nicotine", "Gelatin sodiumate"}
TitleSalts == {"", " HYDROCHLORIDE", " CALCIUM", " sodium,"}
TitleForms ==
  {"", " tablet", " tablets", " patches", " (oral solution)",
   " extended-release capsules", " gelcaps"}
TitleManufacturers == {"", " - TEVA PHARMACEUTICALS USA", " - Oral Care - UK"}

DrugTitles ==
  {s \o salt \o form \o maker :
     s \in TitleSubstances, salt \in TitleSalts, form \in TitleForms,
     maker \in TitleManufacturers}

NormInit ==
  /\ drugTitle \in DrugTitles
  /\ normalizedName = ""
  /\ normDone = FALSE
  /\ SmpcIdle
  /\ ToolIdle
  /\ BatchIdle
  /\ MergeIdle
  /\ RateIdle
  /\ CiteIdle
  /\ XmlIdle
  /\ LruIdle
  /\ LoincIdle
  /\ FetchIdle

NormalizeCall ==
  /\ ~normDone
  /\ normalizedName' = normalizeDrugName(drugTitle)
  /\ normDone' = TRUE
  /\ UNCHANGED <<drugTitle, notNorm>>

NormNext == NormalizeCall

SpecNorm == NormInit /\ [][NormNext]_vars

(***************************************************************************)
(* LRUCache (lib/cache.ts).  The Map is the sequence of its entries in     *)
(* insertion order: Map.delete followed by Map.set moves a key to the end. *)
(***************************************************************************)
\* this.cache.has(key)
LruHas(c, key) == \E i \in 1..Len(c) : c[i].key = key

\* this.cache.get(key), for a key the Map has
LruEntry(c, key) == c[CHOOSE i \in 1..Len(c) : c[i].key = key]

\* this.cache.delete(key)
LruDelete(c, key) == SelectSeq(c, LAMBDA e : e.key # key)

\* a mutant of LruExpired: no entry ever expires
LruExpiredNever(entry, now) == FALSE

\* Date.now() - entry.timestamp > entry.ttl
LruExpired(entry, now) == now - entry.timestamp > entry.ttl

\* what get returns: undefined (Null) or the value
LruGetResult(c, key, now) ==
  IF ~LruHas(c, key) THEN Null
  ELSE IF LruExpired(LruEntry(c, key), now) THEN Null
  ELSE Just(LruEntry(c, key).value)

\* a mutant of LruAfterGet: a hit does not move the entry
LruAfterGetInPlace(c, key, now) ==
  IF LruHas(c, key) /\ LruExpired(LruEntry(c, key), now) THEN LruDelete(c, key) ELSE c

\* the Map after get
LruAfterGet(c, key, now) ==
  IF ~LruHas(c, key) THEN c
  ELSE IF LruExpired(LruEntry(c, key), now) THEN LruDelete(c, key)
  ELSE Append(LruDelete(c, key), LruEntry(c, key))

\* a mutant of LruFull: the cache evicts one entry too late
LruFullLate(size, max) == size > max

\* this.cache.size >= this.maxEntries
LruFull(size, max) == size >= max

\* the key set evicts while it inserts key: the first key of the Map, if the
\* Map is full once key itself is taken out
LruEvicted(c, max, key) ==
  LET rest == IF LruHas(c, key) THEN LruDelete(c, key) ELSE c
  IN IF LruFull(Len(rest), max) /\ Len(rest) > 0 THEN Just(rest[1].key) ELSE Null

\* the Map after set
LruAfterSet(c, max, key, value, ttl, now) ==
  LET rest == IF LruHas(c, key) THEN LruDelete(c, key) ELSE c
      room == IF LruFull(Len(rest), max) /\ Len(rest) > 0 THEN Tail(rest) ELSE rest
  IN Append(room, [key |-> key, value |-> value, timestamp |-> now, ttl |-> ttl])

MaxEntries == 2
MaxLruClock == 3

LruKeys == {"k1", "k2", "k3"}
LruValues == {"v1", "v2"}
LruTtls == {1, 2}

\* the history of touches with key moved to the end
Touched(touches, key) == Append(SelectSeq(touches, LAMBDA k : k # key), key)

LruInit ==
  /\ lruCache = <<>>
  /\ lruMax \in 1..MaxEntries
  /\ lruNow = 0
  /\ lruTouches = <<>>
  /\ lruLast = [op |-> "none", key |-> "", present |-> FALSE, result |-> <<>>, evicted |-> <<>>]
  /\ SmpcIdle
  /\ ToolIdle
  /\ BatchIdle
  /\ MergeIdle
  /\ RateIdle
  /\ CiteIdle
  /\ XmlIdle
  /\ NormIdle
  /\ LoincIdle
  /\ FetchIdle

LruGetCall ==
  \E key \in LruKeys :
    /\ lruLast' = [op |-> "get", key |-> key, present |-> LruHas(lruCache, key),
                   result |-> LruGetResult(lruCache, key, lruNow), evicted |-> Null]
    /\ lruCache' = LruAfterGet(lruCache, key, lruNow)
    /\ lruTouches' = IF LruGetResult(lruCache, key, lruNow) # Null
                     THEN Touched(lruTouches, key) ELSE lruTouches
    /\ UNCHANGED <<lruMax, lruNow, notLru>>

LruSetCall ==
  \E key \in LruKeys, value \in LruValues, ttl \in LruTtls :
    /\ lruLast' = [op |-> "set", key |-> key, present |-> LruHas(lruCache, key),
                   result |-> Null, evicted |-> LruEvicted(lruCache, lruMax, key)]
    /\ lruCache' = LruAfterSet(lruCache, lruMax, key, value, ttl, lruNow)
    /\ lruTouches' = Touched(lruTouches, key)
    /\ UNCHANGED <<lruMax, lruNow, notLru>>

LruClearCall ==
  /\ lruLast' = [op |-> "clear", key |-> "", present |-> FALSE, result |-> Null, evicted |-> Null]
  /\ lruCache' = <<>>
  /\ UNCHANGED <<lruMax, lruNow, lruTouches, notLru>>

LruTick ==
  /\ lruNow < MaxLruClock
  /\ lruNow' = lruNow + 1
  /\ UNCHANGED <<lruCache, lruMax, lruTouches, lruLast, notLru>>

LruNext ==
  \/ LruGetCall
  \/ LruSetCall
  \/ LruClearCall
  \/ LruTick

SpecLru == LruInit /\ [][LruNext]_vars

(***************************************************************************)
(* resolveLoincCodes on the section names of LOINC_MAP.                    *)
(***************************************************************************)
MaxSections == 2

\* the names a caller can take from the tool description: the keys of LOINC_MAP
LoincNames == {LOINC_MAP[i][1] : i \in 1..Len(LOINC_MAP)}

LoincInit ==
  /\ loincSections \in {Undefined} \cup {Some(l) : l \in UNION {[1..n -> LoincNames] : n \in 0..MaxSections}}
  /\ resolvedCodes = Undefined
  /\ loincDone = FALSE
  /\ SmpcIdle
  /\ ToolIdle
  /\ BatchIdle
  /\ MergeIdle
  /\ RateIdle
  /\ CiteIdle
  /\ XmlIdle
  /\ NormIdle
  /\ LruIdle
  /\ FetchIdle

ResolveLoincCodesCall ==
  /\ ~loincDone
  /\ resolvedCodes' = resolveLoincCodes(loincSections)
  /\ loincDone' = TRUE
  /\ UNCHANGED <<loincSections, notLoinc>>

LoincNext == ResolveLoincCodesCall

SpecLoinc == LoincInit /\ [][LoincNext]_vars

(***************************************************************************)
(* The cache-guarded fetch wrappers: searchEmc and fetchSmpcHtml (emc.ts), *)
(* efetch (ncbi.ts) and searchByIndication (openfda.ts).  Each module has  *)
(* its own rateLimitedFetch and lastRequestTime; all of them share the one *)
(* LRUCache of lib/cache.ts.  A step is what one call runs between two     *)
(* awaits; time is in milliseconds.  The                                    *)
(* modules share no limiter and no cache key, so one run calls the         *)
(* wrappers of one module.                                                  *)
(***************************************************************************)
MaxWrapperCalls == 2
MaxWallClock == 1100

DEFAULT_MAX_ENTRIES == 500
ONE_HOUR_MS == 60 * 60 * 1000
ONE_DAY_MS == 24 * 60 * 60 * 1000
TTL == [SEARCH |-> ONE_HOUR_MS, ABSTRACT |-> ONE_DAY_MS, FULLTEXT |-> ONE_DAY_MS, LABEL |-> ONE_DAY_MS]

REQUEST_DELAY_MS_EMC == 1000
REQUEST_DELAY_MS_OPENFDA == 300
MAX_PAGES == 3

\* the module whose rateLimitedFetch a wrapper calls
ModuleOf(wrapper) ==
  CASE wrapper \in {"searchEmc", "fetchSmpcHtml"} -> "emc"
    [] wrapper = "efetch" -> "ncbi"
    [] wrapper = "searchByIndication" -> "openfda"

\* the delay rateLimitedFetch of a module compares elapsed with
RequestDelay(module) ==
  CASE module = "emc" -> REQUEST_DELAY_MS_EMC
    [] module = "ncbi" -> MinDelay
    [] module = "openfda" -> REQUEST_DELAY_MS_OPENFDA

\* const cacheKey = ... of each wrapper
CacheKey(wrapper, p) ==
  CASE wrapper = "searchEmc" -> "emc:search:" \o ToLowerCase(p.drugName)
    [] wrapper = "fetchSmpcHtml" -> "emc:smpc:" \o p.productId
    [] wrapper = "efetch" ->
         "efetch:" \o (IF p.db = Null THEN "pubmed" ELSE p.db[1]) \o ":" \o p.id \o ":"
           \o (IF p.rettype = Null THEN "xml" ELSE p.rettype[1])
    [] wrapper = "searchByIndication" ->
         "openfda:indication:" \o ToLowerCase(p.condition) \o ":" \o NumberToString(p.limit)

\* the ttl each wrapper hands to cache.set
TtlOf(wrapper, p) ==
  CASE wrapper = "searchEmc" -> TTL.SEARCH
    [] wrapper = "fetchSmpcHtml" -> TTL.LABEL
    [] wrapper = "efetch" -> IF p.db = Just("pmc") THEN TTL.FULLTEXT ELSE TTL.ABSTRACT
    [] wrapper = "searchByIndication" -> TTL.SEARCH

\* cache.get<T>(cacheKey): undefined or the value stored
CacheGet(key) ==
  IF LruGetResult(cache, key, wallClock) = Null THEN JsUndefined
  ELSE LruGetResult(cache, key, wallClock)[1]

\* cache.set(cacheKey, value, ttl) on the module-level cache
CacheSet(key, value, ttl) == LruAfterSet(cache, DEFAULT_MAX_ENTRIES, key, value, ttl, wallClock)

\* href.match(/\/emc\/product\/(\d+)\/smpc/): the digits captured, "" when
\* the href has no match
SmpcProductId(href) ==
  LET prefix == "/emc/product/"
      digitsFrom(i) == i + Len(prefix)
      hit(i) ==
        /\ i + Len(prefix) - 1 <= Len(href)
        /\ SubSeq(href, i, i + Len(prefix) - 1) = prefix
        /\ RunEnd(href, digitsFrom(i), Digits) > digitsFrom(i)
        /\ RunEnd(href, digitsFrom(i), Digits) + 4 <= Len(href)
        /\ SubSeq(href, RunEnd(href, digitsFrom(i), Digits),
                  RunEnd(href, digitsFrom(i), Digits) + 4) = "/smpc"
  IN IF \E i \in 1..Len(href) : hit(i)
     THEN LET first == CHOOSE i \in 1..Len(href) : hit(i) /\ \A j \in 1..(i - 1) : ~hit(j)
          IN SubSeq(href, digitsFrom(first), RunEnd(href, digitsFrom(first), Digits) - 1)
     ELSE ""

RECURSIVE EmcResults(_, _)
\* emc.ts 55-77: the .each callback over the product anchors of a search
\* page, results so far in acc
EmcResults(anchors, acc) ==
  IF anchors = <<>> THEN acc
  ELSE LET el == Head(anchors)
           product_id == SmpcProductId(el.href)
           name == Trim(el.text)
           skip ==
             \/ product_id = ""
             \/ name = ""
             \/ Includes(ToLowerCase(name), "health professional")
             \/ \E i \in 1..Len(acc) : acc[i].product_id = product_id
       IN EmcResults(Tail(anchors),
                     IF skip THEN acc
                     ELSE Append(acc, [product_id |-> product_id, name |-> name,
                                       company |-> Trim(el.company)]))

\* xs?.[0] ?? ""
FirstOrEmpty(xs) == IF Len(xs) > 0 THEN xs[1] ELSE ""

RECURSIVE SeenAfter(_, _)
\* openfda.ts 90-111: the loop over data.results, the Map seen as the list of
\* its entries in insertion order
SeenAfter(rs, seen) ==
  IF rs = <<>> THEN seen
  ELSE LET result == Head(rs)
           genericName == IF result.openfda = Null THEN ""
                          ELSE FirstOrEmpty(result.openfda[1].generic_name)
           key == ToLowerCase(genericName)
           skip ==
             \/ result.openfda = Null
             \/ genericName = ""
             \/ Includes(genericName, ",")
             \/ \E i \in 1..Len(seen) : seen[i].key = key
       IN SeenAfter(Tail(rs),
                    IF skip THEN seen
                    ELSE Append(seen, Entry(key,
                           [generic_name |-> genericName,
                            brand_name |-> FirstOrEmpty(result.openfda[1].brand_name),
                            manufacturer |-> FirstOrEmpty(result.openfda[1].manufacturer_name),
                            set_id |-> FirstOrEmpty(result.openfda[1].spl_set_id)])))

\* [...seen.values()].slice(0, limit)
DrugsOf(seen, limit) ==
  [i \in 1..Min(Len(seen), limit) |-> seen[i].value]

\* the product anchors of the search pages eMC answers with
EmcAnchor(href, text, company) == [href |-> href, text |-> text, company |-> company]

EmcPages ==
  { <<>>,
    <<EmcAnchor("/emc/product/101/smpc", "Health Professionals (SmPC)", ""),
      EmcAnchor("/emc/product/101/smpc", " Aspirin 75mg ", "Bayer"),
      EmcAnchor("/emc/product/101/smpc", "Aspirin 75mg tablets", ""),
      EmcAnchor("/emc/product/202/pil", "Aspirin leaflet", "")>> }

\* the documents eMC and NCBI answer with
SmpcDocuments == {"", "<html>4.1 Therapeutic indications</html>"}
EfetchDocuments == {"", "<PubmedArticleSet/>"}

\* the label records OpenFDA answers with
OpenFdaRecord(generic, brand) ==
  [openfda |-> Just([generic_name |-> generic, brand_name |-> brand,
                     manufacturer_name |-> <<>>, spl_set_id |-> <<"s1">>])]

OpenFdaData ==
  { [results |-> Null],
    [results |-> Just(<<>>)],
    [results |-> Just(<<OpenFdaRecord(<<"Albuterol">>, <<"Ventolin">>),
                        [openfda |-> Null],
                        OpenFdaRecord(<<>>, <<"Kit">>),
                        OpenFdaRecord(<<"ipratropium, albuterol">>, <<>>),
                        OpenFdaRecord(<<"ALBUTEROL">>, <<>>),
                        OpenFdaRecord(<<"Montelukast">>, <<"Singulair">>)>>)] }

\* the arguments the tools call the wrappers with
SearchEmcParams == {[drugName |-> n] : n \in {"Aspirin", "aspirin"}}
FetchSmpcHtmlParams == {[productId |-> "101"]}
EfetchParams == {[db |-> d, id |-> "38000001", rettype |-> Null] : d \in {Null, Just("pmc")}}
SearchByIndicationParams == {[condition |-> "Asthma", limit |-> l] : l \in {1, 20}}

\* what a wrapper has once its fetch resolved with an ok response: the body
\* read at the next await
BodiesOf(wrapper) ==
  CASE wrapper = "searchEmc" -> EmcPages
    [] wrapper = "fetchSmpcHtml" -> SmpcDocuments
    [] wrapper = "efetch" -> EfetchDocuments
    [] wrapper = "searchByIndication" -> OpenFdaData

\* a call of a wrapper: its arguments, where it stands, and what it holds
NewCall(wrapper, p) ==
  [id |-> Len(calls) + 1, wrapper |-> wrapper, params |-> p,
   cacheKey |-> CacheKey(wrapper, p), pc |-> "start", wake |-> 0,
   page |-> 0, seen |-> <<>>, failed |-> FALSE, result |-> JsUndefined]

\* rateLimitedFetch from its first line to its first await, run by call c:
\* the call goes to sleep, or sets lastRequestTime and calls fetch at once
RateLimitedFetchEntry(c) ==
  LET module == ModuleOf(c.wrapper)
      elapsed == wallClock - lastRequestTime[module]
  IN IF elapsed < RequestDelay(module)
     THEN [call |-> [c EXCEPT !.pc = "asleep",
                              !.wake = wallClock + (RequestDelay(module) - elapsed)],
           lastRequestTime |-> lastRequestTime,
           issued |-> issued]
     ELSE [call |-> [c EXCEPT !.pc = "fetching"],
           lastRequestTime |-> [lastRequestTime EXCEPT ![module] = wallClock],
           issued |-> Append(issued, [module |-> module, cacheKey |-> c.cacheKey,
                                      call |-> c.id, at |-> wallClock])]

\* a wrapper from its first line to its first await: cache.get, then either
\* the cached value is returned or rateLimitedFetch is entered
WrapperCall(wrapper, p) ==
  LET c == NewCall(wrapper, p)
      cached == CacheGet(c.cacheKey)
      entry == RateLimitedFetchEntry(c)
  IN /\ Len(calls) < MaxWrapperCalls
     /\ \A i \in 1..Len(calls) : ModuleOf(calls[i].wrapper) = ModuleOf(wrapper)
     /\ IF Truthy(cached)
        THEN /\ calls' = Append(calls, [c EXCEPT !.pc = "returned", !.result = cached])
             /\ cache' = LruAfterGet(cache, c.cacheKey, wallClock)
             /\ UNCHANGED <<lastRequestTime, issued>>
        ELSE /\ calls' = Append(calls, entry.call)
             /\ cache' = LruAfterGet(cache, c.cacheKey, wallClock)
             /\ lastRequestTime' = entry.lastRequestTime
             /\ issued' = entry.issued
     /\ UNCHANGED <<wallClock, notFetch>>

\* the modules are loaded with lastRequestTime = 0; a request that failed
\* 100 ms ago has left its time there and nothing in the cache
FetchInit ==
  /\ cache = <<>>
  /\ \E t \in {0, 900} : lastRequestTime = [emc |-> t, ncbi |-> t, openfda |-> t]
  /\ wallClock = 1000
  /\ calls = <<>>
  /\ issued = <<>>
  /\ SmpcIdle
  /\ ToolIdle
  /\ BatchIdle
  /\ MergeIdle
  /\ RateIdle
  /\ CiteIdle
  /\ XmlIdle
  /\ NormIdle
  /\ LruIdle
  /\ LoincIdle

SearchEmcCall == \E p \in SearchEmcParams : WrapperCall("searchEmc", p)

FetchSmpcHtmlCall == \E p \in FetchSmpcHtmlParams : WrapperCall("fetchSmpcHtml", p)

EfetchCall == \E p \in EfetchParams : WrapperCall("efetch", p)

SearchByIndicationCall == \E p \in SearchByIndicationParams : WrapperCall("searchByIndication", p)

\* the call whose setTimeout fires next: the earliest wake-up, the earlier
\* call first among equals
NextTimer(i) ==
  /\ calls[i].pc = "asleep"
  /\ calls[i].wake <= wallClock
  /\ \A j \in 1..Len(calls) :
       calls[j].pc = "asleep" /\ j # i =>
         calls[j].wake > calls[i].wake \/ (calls[j].wake = calls[i].wake /\ j > i)

\* rateLimitedFetch after its sleep: lastRequestTime = Date.now(), then fetch
SleepEnds ==
  \E i \in 1..Len(calls) :
    /\ NextTimer(i)
    /\ calls' = [calls EXCEPT ![i].pc = "fetching"]
    /\ lastRequestTime' = [lastRequestTime EXCEPT ![ModuleOf(calls[i].wrapper)] = wallClock]
    /\ issued' = Append(issued, [module |-> ModuleOf(calls[i].wrapper),
                                 cacheKey |-> calls[i].cacheKey, call |-> i, at |-> wallClock])
    /\ UNCHANGED <<cache, wallClock, notFetch>>

\* openfda.ts 114-116: the list is cut, stored and returned
IndicationReturns(i, seen, failed) ==
  /\ calls' = [calls EXCEPT ![i].pc = "returned", ![i].seen = seen, ![i].failed = failed,
                            ![i].result = JsArray(DrugsOf(seen, calls[i].params.limit))]
  /\ cache' = CacheSet(calls[i].cacheKey, JsArray(DrugsOf(seen, calls[i].params.limit)), TTL.SEARCH)
  /\ UNCHANGED <<lastRequestTime, issued>>

\* the fetch of a call resolves with an ok response and its body is read: the
\* wrapper runs on to its return, or, in searchByIndication, to the
\* rateLimitedFetch of the next page
FetchResolves ==
  \E i \in 1..Len(calls) :
    /\ calls[i].pc = "fetching"
    /\ \E body \in BodiesOf(calls[i].wrapper) :
         CASE calls[i].wrapper = "searchEmc" ->
                /\ calls' = [calls EXCEPT ![i].pc = "returned",
                                          ![i].result = JsArray(EmcResults(body, <<>>))]
                /\ cache' = CacheSet(calls[i].cacheKey, JsArray(EmcResults(body, <<>>)),
                                     TtlOf("searchEmc", calls[i].params))
                /\ UNCHANGED <<lastRequestTime, issued>>
           [] calls[i].wrapper \in {"fetchSmpcHtml", "efetch"} ->
                /\ calls' = [calls EXCEPT ![i].pc = "returned", ![i].result = JsString(body)]
                /\ cache' = CacheSet(calls[i].cacheKey, JsString(body),
                                     TtlOf(calls[i].wrapper, calls[i].params))
                /\ UNCHANGED <<lastRequestTime, issued>>
           [] calls[i].wrapper = "searchByIndication" ->
                IF body.results = Null \/ body.results = Just(<<>>)
                THEN IndicationReturns(i, calls[i].seen, calls[i].failed)
                ELSE IF calls[i].page + 1 < MAX_PAGES
                THEN LET entry == RateLimitedFetchEntry(
                                    [calls[i] EXCEPT !.seen = SeenAfter(body.results[1], calls[i].seen),
                                                     !.page = calls[i].page + 1])
                     IN /\ calls' = [calls EXCEPT ![i] = entry.call]
                        /\ lastRequestTime' = entry.lastRequestTime
                        /\ issued' = entry.issued
                        /\ UNCHANGED cache
                ELSE IndicationReturns(i, SeenAfter(body.results[1], calls[i].seen), calls[i].failed)
    /\ UNCHANGED <<wallClock, notFetch>>

\* the fetch of a call fails (network error, abort after TIMEOUT_MS, or a
\* response that is not ok, which rateLimitedFetch throws on): searchEmc,
\* fetchSmpcHtml and efetch reject; searchByIndication catches, leaves its
\* page loop and goes on to lines 114-116
FetchRejects ==
  \E i \in 1..Len(calls) :
    /\ calls[i].pc = "fetching"
    /\ IF calls[i].wrapper = "searchByIndication"
       THEN IndicationReturns(i, calls[i].seen, TRUE)
       ELSE /\ calls' = [calls EXCEPT ![i].pc = "rejected", ![i].failed = TRUE]
            /\ UNCHANGED <<cache, lastRequestTime, issued>>
    /\ UNCHANGED <<wallClock, notFetch>>

\* the earliest wake-up time of the calls asleep
EarliestWake ==
  CHOOSE t \in {calls[i].wake : i \in {j \in 1..Len(calls) : calls[j].pc = "asleep"}} :
    \A i \in 1..Len(calls) : calls[i].pc = "asleep" => calls[i].wake >= t

\* time passes, by 100 ms or up to the next wake-up; a timer that is due
\* fires before time goes on
TimePasses ==
  /\ \A i \in 1..Len(calls) : calls[i].pc = "asleep" => calls[i].wake > wallClock
  /\ \/ /\ wallClock < MaxWallClock
        /\ wallClock' = wallClock + 100
     \/ /\ \E i \in 1..Len(calls) : calls[i].pc = "asleep"
        /\ wallClock' = EarliestWake
  /\ UNCHANGED <<cache, lastRequestTime, calls, issued, notFetch>>

FetchNext ==
  \/ SearchEmcCall
  \/ FetchSmpcHtmlCall
  \/ EfetchCall
  \/ SearchByIndicationCall
  \/ SleepEnds
  \/ FetchResolves
  \/ FetchRejects
  \/ TimePasses

SpecFetch == FetchInit /\ [][FetchNext]_vars

(***************************************************************************)
(* Claims about parseSmpcSections (SpecSmpc).                               *)
(***************************************************************************)
Segmented == ppc \in {"extract", "filter", "done"}

\* C5: strategy 2 runs only if strategy 1 produced zero boundaries; once the
\* boundaries are fixed they are exactly those of strategy 1 when it found any
\* (strategy 2 never ran), else exactly those of strategy 2: never a merge.
C5_SecondStrategyOnlyOnNoMatch ==
  Segmented =>
    /\ Strategy1(html) # <<>> => scans = <<1>> /\ sectionElements = Strategy1(html)
    /\ Strategy1(html) = <<>> => scans = <<1, 2>> /\ sectionElements = Strategy2(html)

\* two structural headings found, strategy 2 would have matched too, and did not run
C5_Witness ==
  /\ ppc = "done"
  /\ Len(Strategy1(html)) >= 2
  /\ Strategy2(html) # <<>>
  /\ scans = <<1>>
  /\ Len(results) = Len(Strategy1(html))

\* The synonym keywords of the filter with the section code each stands for.
SynonymCodes ==
  { <<"indication", "4.1">>, <<"dosage", "4.2">>, <<"dosing", "4.2">>, <<"posology", "4.2">>,
    <<"contraindication", "4.3">>, <<"warning", "4.4">>, <<"precaution", "4.4">>,
    <<"interaction", "4.5">>, <<"pregnancy", "4.6">>, <<"fertility", "4.6">>,
    <<"adverse", "4.8">>, <<"undesirable", "4.8">>, <<"side effect", "4.8">>,
    <<"overdose", "4.9">>, <<"overdosage", "4.9">>, <<"pharmacodynamic", "5.1">>,
    <<"pharmacokinetic", "5.2">> }

CodeRule(s, req) == s.code = req
TitleRule(s, req) == Includes(ToLowerCase(s.title), Trim(ToLowerCase(req)))
TitleRuleReverse(s, req) == Includes(Trim(ToLowerCase(req)), ToLowerCase(s.title))
SynonymRule(s, req) ==
  \E kw \in SynonymCodes : Includes(Trim(ToLowerCase(req)), kw[1]) /\ kw[2] = s.code

Requested == requestedSections.defined /\ Len(requestedSections.list) > 0

\* C6: with a non-empty request list a section is kept if and only if, for some
\* request, its code equals the request, or its title contains the request or
\* the request contains its title (case-insensitive), or the request holds a
\* synonym keyword whose fixed code is the section's code; document order kept.
C6_KeptIffRuleMatches ==
  (ppc = "done" /\ Requested) =>
    returned = SelectSeq(results,
                 LAMBDA s : \E k \in 1..Len(requestedSections.list) :
                    LET req == requestedSections.list[k]
                    IN \/ CodeRule(s, req)
                       \/ TitleRule(s, req)
                       \/ TitleRuleReverse(s, req)
                       \/ SynonymRule(s, req))

\* C7: a request containing 'contraindication' stands for 4.3 and one containing
\* 'interaction' for 4.5; neither accepts section 4.1 or 4.4 through the
\* synonym rule (that is, when neither the code nor the title matches).
C7_SynonymFixedCode ==
  ppc = "done" =>
    \A i \in 1..Len(results) : \A k \in 1..Len(requestedSections.list) :
      LET s == results[i]
          req == requestedSections.list[k]
          lower == Trim(ToLowerCase(req))
      IN (/\ Includes(lower, "contraindication") \/ Includes(lower, "interaction")
          /\ s.code \in {"4.1", "4.4"}
          /\ ~CodeRule(s, req) /\ ~CodeRule(s, lower) /\ ~TitleRule(s, req))
         => ~SectionMatches(s, req)

(***************************************************************************)
(* Claims about compare_labels, get_uspi and get_smpc (SpecTools).          *)
(***************************************************************************)
\* compare_labels has answered for a crosswalk of K >= 1 rows
CompareDone == tool = "compare_labels" /\ tpc = "done" /\ Len(mappings) >= 1

UsSide == IF usBranch.st = "fulfilled" THEN usBranch.sections ELSE EmptyMap
UkSide == IF ukBranch.st = "fulfilled" THEN ukBranch.sections ELSE EmptyMap

NoSections == DOMAIN UsSide = {} /\ DOMAIN UkSide = {}

RowsFollowTable ==
  /\ Len(toolResult.comparisons) = Len(mappings)
  /\ \A i \in 1..Len(mappings) :
       /\ toolResult.comparisons[i].topic = mappings[i].topic
       /\ toolResult.comparisons[i].us_section =
            (IF mappings[i].us_loinc \in DOMAIN UsSide
             THEN <<UsSide[mappings[i].us_loinc]>> ELSE <<>>)
       /\ toolResult.comparisons[i].uk_section =
            (IF mappings[i].uk_code \in DOMAIN UkSide
             THEN <<UkSide[mappings[i].uk_code]>> ELSE <<>>)

BothRejected == usBranch.st = "rejected" /\ ukBranch.st = "rejected"

RejectionReasons ==
  (IF usBranch.st = "rejected" THEN <<"US: " \o usBranch.reason>> ELSE <<>>)
    \o (IF ukBranch.st = "rejected" THEN <<"UK: " \o ukBranch.reason>> ELSE <<>>)

PartialAnswer(lostIsUs) ==
  /\ ~toolResult.isError
  /\ toolResult.kind = "comparison"
  /\ toolResult.us_source = (IF lostIsUs THEN Null ELSE usBranch.source)
  /\ toolResult.uk_source = (IF lostIsUs THEN ukBranch.source ELSE Null)
  /\ (IF lostIsUs THEN ukBranch.source ELSE usBranch.source) # Null
  /\ Len(toolResult.comparisons) = Len(mappings)
  /\ \A i \in 1..Len(mappings) :
       /\ toolResult.comparisons[i].us_section =
            (IF ~lostIsUs /\ mappings[i].us_loinc \in DOMAIN usBranch.sections
             THEN <<usBranch.sections[mappings[i].us_loinc]>> ELSE Null)
       /\ toolResult.comparisons[i].uk_section =
            (IF lostIsUs /\ mappings[i].uk_code \in DOMAIN ukBranch.sections
             THEN <<ukBranch.sections[mappings[i].uk_code]>> ELSE Null)

\* C3: the two fetches start in the same step and settle independently; the
\* handler answers only once both have settled; if exactly one rejected and the
\* other brought at least one section, the answer is a comparison, not an
\* error, with the surviving side's sections and source and nulls for the
\* failed side.
C3_PartialResultAfterBothSettle ==
  /\ (usBranch.st = "idle") <=> (ukBranch.st = "idle")
  /\ tool = "compare_labels" /\ tpc = "await" => usBranch.st # "idle" /\ ukBranch.st # "idle"
  /\ CompareDone => usBranch.st \in Settled /\ ukBranch.st \in Settled
  /\ (CompareDone /\ usBranch.st = "rejected" /\ ukBranch.st = "fulfilled"
        /\ DOMAIN ukBranch.sections # {}) => PartialAnswer(TRUE)
  /\ (CompareDone /\ ukBranch.st = "rejected" /\ usBranch.st = "fulfilled"
        /\ DOMAIN usBranch.sections # {}) => PartialAnswer(FALSE)

\* the US fetch rejected, the UK sections are in the answer
C3_Witness ==
  /\ CompareDone
  /\ usBranch.st = "rejected"
  /\ ukBranch.st = "fulfilled"
  /\ toolResult.kind = "comparison"
  /\ toolResult.us_source = Null
  /\ \E i \in 1..Len(toolResult.comparisons) : toolResult.comparisons[i].uk_section # Null

HasKnownCode(body) == \E i \in 1..Len(body) : body[i].code \in Range(ALL_PI_CODES)

UspiAnswered == tool = "get_uspi" /\ tpc = "done" /\ toolResult.kind = "uspi"

OneSectionPerCode(sections) ==
  \A i, j \in 1..Len(sections) : sections[i].code = sections[j].code => i = j

\* C8: every Label Record returned holds at most one Section per code (the
\* sections of get_smpc and get_uspi, each side's index in compare_labels), and
\* of several sections extracted with one code the last is the one kept.
C8_OneSectionPerCode ==
  /\ (tool \in {"get_smpc", "get_uspi"} /\ tpc = "done" /\ toolResult.kind \in {"smpc", "uspi"})
       => OneSectionPerCode(toolResult.sections)
  /\ (tool = "get_smpc" /\ tpc = "done" /\ toolResult.kind = "smpc") =>
       LET raw == parseSmpcSections(smpcHtml, params)
       IN \A i \in 1..Len(toolResult.sections) :
            \A j \in 1..Len(raw) :
               (raw[j].code = toolResult.sections[i].code
                  /\ \A k \in (j + 1)..Len(raw) : raw[k].code # raw[j].code)
               => toolResult.sections[i] = raw[j]

\* C9: a branch whose fetch rejected is never answered for as a genuine
\* absence is: the answer differs from the one given had that branch fulfilled
\* with no section and no source.
C9_FailureDistinctFromAbsence ==
  CompareDone =>
    /\ usBranch.st = "rejected" =>
         toolResult # CompareResult(mappings, Fulfilled(EmptyMap, Null), ukBranch)
    /\ ukBranch.st = "rejected" =>
         toolResult # CompareResult(mappings, usBranch, Fulfilled(EmptyMap, Null))

(***************************************************************************)
(* Claims about batchEmcLookups (SpecBatch).                                *)
(***************************************************************************)
BatchNo(j) == (j - 1) \div MAX_CONCURRENT_EMC

\* C10: at most MAX_CONCURRENT_EMC lookups are unsettled at any moment; no
\* lookup of a later batch has started while one of an earlier batch is
\* unsettled or unstarted; no name is looked up twice; and when the call
\* returns every name has been looked up exactly once and has settled.
C10_BoundedFanOut ==
  /\ Cardinality(Unsettled) <= MAX_CONCURRENT_EMC
  /\ \A i, j \in DOMAIN lookups :
       (BatchNo(i) < BatchNo(j) /\ started[j] > 0)
         => lookups[i] \in {"fulfilled", "empty", "rejected"}
  /\ \A j \in DOMAIN started : started[j] <= 1
  /\ bpc = "done" =>
       \A j \in DOMAIN lookups :
          started[j] = 1 /\ lookups[j] \in {"fulfilled", "empty", "rejected"}

\* the second batch is in flight after a full first batch
C10_Witness ==
  /\ bpc = "await"
  /\ bi = MAX_CONCURRENT_EMC
  /\ Len(drugNames) > MAX_CONCURRENT_EMC
  /\ \E j \in Unsettled : BatchNo(j) = 1
  /\ \A j \in 1..MAX_CONCURRENT_EMC : lookups[j] \in {"fulfilled", "empty", "rejected"}

\* C11: whatever subset of lookups rejects, the call runs every batch and
\* returns; the returned map holds exactly the names whose lookup fulfilled
\* with a non-empty list, each with the value of its own lookup, and while the
\* loop runs the map holds exactly those of the batches already collected.
C11_PartialFailureKeepsOthers ==
  /\ bpc = "loop" =>
       DOMAIN batchResults =
         {drugNames[j] : j \in {k \in DOMAIN lookups : k <= bi /\ lookups[k] = "fulfilled"}}
  /\ bpc = "done" =>
       /\ \A j \in DOMAIN lookups : started[j] = 1 /\ lookups[j] # "unstarted"
       /\ DOMAIN batchResults =
            {drugNames[j] : j \in {k \in DOMAIN lookups : lookups[k] = "fulfilled"}}
       /\ \A j \in DOMAIN lookups :
            lookups[j] = "fulfilled" => batchResults[drugNames[j]] = EmcHits(drugNames[j])

\* a lookup of the first batch rejected, one of the second batch is in the map
C11_Witness ==
  /\ bpc = "done"
  /\ \E i \in DOMAIN lookups : BatchNo(i) = 0 /\ lookups[i] = "rejected"
  /\ \E j \in DOMAIN lookups :
       BatchNo(j) = 1 /\ lookups[j] = "fulfilled" /\ drugNames[j] \in DOMAIN batchResults
  /\ \E k \in DOMAIN lookups : lookups[k] = "empty"

(***************************************************************************)
(* Claims about the merge of search_by_indication (SpecMerge).              *)
(***************************************************************************)
UsKeys == {normalizeDrugName(ValueOrNone(usResult)[i].title) : i \in 1..Len(ValueOrNone(usResult))}
UkKeys == {normalizeDrugName(ValueOrNone(ukResult)[i].name) : i \in 1..Len(ValueOrNone(ukResult))}

\* a step of the merge keeps every entry and never turns a flag from true to false
FlagsOnlyRise ==
  \A k \in DOMAIN drugMap :
     /\ k \in DOMAIN drugMap'
     /\ drugMap[k].us_approved => drugMap'[k].us_approved
     /\ drugMap[k].uk_approved => drugMap'[k].uk_approved

MergedExactly ==
  mpc = "done" =>
    /\ DOMAIN drugMap = (UsKeys \cup UkKeys) \ {""}
    /\ Len(drugOrder) = Cardinality(DOMAIN drugMap)
    /\ {drugOrder[i] : i \in 1..Len(drugOrder)} = DOMAIN drugMap
    /\ \A k \in DOMAIN drugMap :
         /\ drugMap[k].name = k
         /\ drugMap[k].us_approved <=> k \in UsKeys
         /\ drugMap[k].uk_approved <=> k \in UkKeys

StartsInWindow(t) ==
  Cardinality({i \in 1..Len(fetchStarts) : fetchStarts[i] >= t /\ fetchStarts[i] < t + 1000})

\* C13: no one-second window holds more fetch starts than 3 without an API key
\* and 10 with one, overlapping calls of rateLimitedFetch included.
C13_RateLimit ==
  \A i \in 1..Len(fetchStarts) :
     StartsInWindow(fetchStarts[i]) <= (IF apiKey THEN 10 ELSE 3)

(***************************************************************************)
(* Claims about the citation formatters (SpecCite).                         *)
(***************************************************************************)
\* the roster entry an author string was built from
RosterEntry(name) ==
  CHOOSE r \in {AuthorRoster[k] : k \in 1..Len(AuthorRoster)} : r.name = name

Initial(g) == SubSeq(g, 1, 1)

\* "Smith, J. A."
ExpectedApa(r) ==
  r.surname \o ", " \o Join([k \in 1..Len(r.given) |-> Initial(r.given[k]) \o "."], " ")

\* "Smith JA"
ExpectedVancouver(r) ==
  r.surname \o " " \o Join([k \in 1..Len(r.given) |-> Initial(r.given[k])], "")

\* "Smith, J.A."
ExpectedHarvard(r) ==
  r.surname \o ", " \o Join([k \in 1..Len(r.given) |-> Initial(r.given[k]) \o "."], "")

\* "Smith, John A"
ExpectedBibtex(r) == r.surname \o ", " \o Join(r.given, " ")

Expected(st, r) ==
  CASE st = "apa" -> ExpectedApa(r)
    [] st = "vancouver" -> ExpectedVancouver(r)
    [] st = "harvard" -> ExpectedHarvard(r)
    [] st = "bibtex" -> ExpectedBibtex(r)

\* the expected renderings of the authors lo..hi of info, joined by sep
ExpectedAuthors(st, lo, hi, sep) ==
  Join([k \in 1..(hi - lo + 1) |-> Expected(st, RosterEntry(info.authors[lo + k - 1]))], sep)

\* the surnames of the authors lo..hi of info do not occur in the citation
NoneShown(lo, hi) ==
  \A k \in lo..hi : ~Includes(citation, RosterEntry(info.authors[k]).surname)

NumAuthors == Len(info.authors)

\* C14: in the APA style a list of at most 7 authors is rendered with every
\* author and no ellipsis; a longer list is rendered as exactly its first 6
\* authors, the ellipsis marker and the final author, no other author shown.
C14_ApaElidesAboveSeven ==
  (style = "apa" /\ NumAuthors > 0) =>
    LET after == IF info.year # "" THEN " (" ELSE ". "
    IN IF NumAuthors <= 7
       THEN /\ StartsWith(citation, ExpectedAuthors("apa", 1, NumAuthors, ", ") \o after)
            /\ ~Includes(citation, "...")
       ELSE /\ StartsWith(citation,
                 ExpectedAuthors("apa", 1, 6, ", ") \o ", ... "
                   \o ExpectedApa(RosterEntry(info.authors[NumAuthors])) \o after)
            /\ NoneShown(7, NumAuthors - 1)

\* eight authors, elided
C14_Witness ==
  /\ style = "apa"
  /\ NumAuthors = 8
  /\ Includes(citation, ", ... ")
  /\ ~Includes(citation, RosterEntry(info.authors[7]).surname)

C16_HarvardEtAlAboveThree ==
  (style = "harvard" /\ NumAuthors > 0) =>
    LET after == IF info.year # "" THEN " " \o info.year \o "." ELSE ". '"
    IN IF NumAuthors <= 3
       THEN /\ StartsWith(citation, ExpectedAuthors("harvard", 1, NumAuthors, ", ") \o after)
            /\ ~Includes(citation, "et al.")
       ELSE /\ StartsWith(citation,
                 ExpectedHarvard(RosterEntry(info.authors[1])) \o " et al." \o after)
            /\ NoneShown(2, NumAuthors)

\* four authors, only the first shown
C16_Witness ==
  /\ style = "harvard"
  /\ NumAuthors = 4
  /\ info.authors[1] = "Smith John A"
  /\ StartsWith(citation, "Smith, J.A. et al.")

\* C17: in the BibTeX style all N authors appear, joined by "and", whatever N
\* is; with a non-empty DOI the output holds the field doi = {<DOI>} (spacing
\* around the equals sign aside), with an empty DOI it holds no doi field.
C17_BibtexAllAuthorsAndDoi ==
  style = "bibtex" =>
    LET flat == RemoveCharsRange(citation, 1, Len(citation), {" "})
    IN /\ Includes(citation,
            "author  = {" \o ExpectedAuthors("bibtex", 1, NumAuthors, " and ") \o "},\n")
       /\ info.doi # "" => Includes(flat, "\ndoi={" \o info.doi \o "},\n")
       /\ info.doi = "" => ~Includes(citation, "doi")

\* nine authors and the DOI 10.1000/xyz
C17_Witness ==
  /\ style = "bibtex"
  /\ NumAuthors = 9
  /\ info.doi = "10.1000/xyz"
  /\ Includes(citation, "Tanaka, H and Murphy, S},")
  /\ Includes(citation, "{10.1000/xyz}")

(***************************************************************************)
(* Claims about the extractors of lib/cache.ts                             *)
(***************************************************************************)
RECURSIVE TreeText(_)
\* the text of a tree by the documented rule: nothing for null and undefined,
\* a string itself, a node's own text when it has one, and otherwise the texts
\* of its child fields that are not attributes, a list's elements one by one,
\* joined by single spaces and trimmed
TreeText(n) ==
  IF n.kind \in {"null", "undefined"} THEN ""
  ELSE IF n.kind = "string" THEN n.str
  ELSE IF n.kind = "number" THEN NumberToString(n.num)
  ELSE IF \E i \in 1..Len(Entries(n)) : Entries(n)[i].key = "#text"
  THEN LET own == Entries(n)[CHOOSE i \in 1..Len(Entries(n)) : Entries(n)[i].key = "#text"].value
       IN IF own.kind = "number" THEN NumberToString(own.num) ELSE own.str
  ELSE LET fields == SelectSeq(Entries(n), LAMBDA e : ~(Len(e.key) >= 2 /\ SubSeq(e.key, 1, 2) = "@_"))
           texts == Flatten([i \in 1..Len(fields) |->
                      IF fields[i].value.kind = "array"
                      THEN [j \in 1..Len(fields[i].value.items) |->
                              TreeText(fields[i].value.items[j])]
                      ELSE <<TreeText(fields[i].value)>>])
       IN Trim(Join(texts, " "))

\* C18: extractText returns a string for every tree: the empty string for
\* null and undefined, a string itself, the node's own text verbatim when it
\* has one, and otherwise the texts of its non-attribute child fields (lists
\* element by element) joined by a single space and trimmed
C18_ExtractTextRule ==
  xmlCall = "extractText" =>
    /\ xmlText \in STRING
    /\ xmlText = TreeText(xmlNode)

\* an element with an attribute, a nested list with an untrimmed string and a
\* text node, and a sibling: the attribute is left out, the rest joined
C18_Witness ==
  /\ xmlCall = "extractText"
  /\ xmlNode = JsObject(<<Entry("@_Label", JsString("L")),
                          Entry("i", JsObject(<<Entry("p", JsArray(<<JsString(" b "), TextNode>>))>>)),
                          Entry("sup", JsString("a"))>>)
  /\ xmlText = "b   c a"

\* the occurrences of the child element key that the parsed parent holds:
\* none when the field is absent, the value itself, or the elements of a list
OccurrencesOf(parent, key) ==
  IF parent.kind # "object" \/ ~HasKey(parent, key) THEN <<>>
  ELSE IF Field(parent, key).kind = "array" THEN Field(parent, key).items
  ELSE <<Field(parent, key)>>

\* the repeatable element each list extractor reads
RepeatableOf(call) ==
  CASE call = "parseAuthors" -> "Author"
    [] call = "parseAbstractSections" -> "AbstractText"
    [] call = "parseJatsSections" -> "sec"

\* C19: parseAuthors, parseAbstractSections and parseJatsSections return a
\* list with exactly one entry per occurrence of their repeatable element,
\* whether the occurrences came as no field, a single value or a list
C19_OneEntryPerOccurrence ==
  xmlCall \in {"parseAuthors", "parseAbstractSections", "parseJatsSections"} =>
    Len(xmlList) = Len(OccurrencesOf(xmlNode, RepeatableOf(xmlCall)))

\* the text of an alternate-identifier entry without a leading "doi:" in any
\* letter case
WithoutDoiPrefix(s) ==
  IF Len(s) >= 4 /\ ToLowerCase(SubSeq(s, 1, 4)) = "doi:" THEN SubSeq(s, 5, Len(s)) ELSE s

\* the DOI the rule gives for an article: the text of the first entry whose
\* identifier type is "doi", prefix removed; empty when there is none
DocumentedDoi(articleData) ==
  LET ids == OccurrencesOf(articleData, "ELocationID")
      isDoi(i) == /\ ids[i].kind = "object"
                  /\ \E k \in 1..Len(ids[i].entries) :
                       ids[i].entries[k] = Entry("@_EIdType", JsString("doi"))
      ownText(e) == e.entries[CHOOSE k \in 1..Len(e.entries) : e.entries[k].key = "#text"].value.str
  IN IF \A i \in 1..Len(ids) : ~isDoi(i) THEN ""
     ELSE WithoutDoiPrefix(ownText(ids[CHOOSE i \in 1..Len(ids) :
                                          isDoi(i) /\ \A j \in 1..(i - 1) : ~isDoi(j)]))

\* C20: get_abstract and format_citation take as DOI the text of the first
\* ELocationID entry, in document order, whose EIdType is "doi", with a
\* leading "doi:" in any letter case stripped; later entries are ignored and
\* the DOI is empty when no entry matches
C20_FirstDoiPrefixStripped ==
  xmlCall \in {"get_abstract", "format_citation"} => xmlText = DocumentedDoi(xmlNode)

\* the entries of the citation wrapper of a parsed document
CitationEntries(doc) == OccurrencesOf(Field(doc, "PubmedArticleSet"), "PubmedArticle")

\* the entry carries article data
HasArticleData(entry) == Field(Field(entry, "MedlineCitation"), "Article").kind = "object"

\* C21: get_abstract answers a document whose citation wrapper is absent or
\* holds no entry with an error result and no record; a record is returned
\* only when an entry with article data exists, and it is never a record of
\* defaults built for an entry without article data
C21_NotFoundOrRecord ==
  xmlCall = "registerAbstractTool" =>
    /\ xmlResult.isError <=> xmlResult.record = Null
    /\ CitationEntries(xmlNode) = <<>> =>
         /\ xmlResult.isError
         /\ xmlResult.text = "No article found for PMID 123"
    /\ xmlResult.record # Null =>
         /\ \E i \in 1..Len(CitationEntries(xmlNode)) : HasArticleData(CitationEntries(xmlNode)[i])
         /\ HasArticleData(CitationEntries(xmlNode)[1])

\* a wrapper element that holds zero entries is answered with the error
C21_Witness ==
  /\ xmlCall = "registerAbstractTool"
  /\ xmlNode = JsObject(<<Entry("PubmedArticleSet",
                                JsObject(<<Entry("PubmedArticle", JsArray(<<>>))>>))>>)
  /\ xmlResult = [isError |-> TRUE, text |-> "No article found for PMID 123", record |-> <<>>]

RECURSIVE NestedSections(_)
\* the sub-sections below a section node, at every depth
NestedSections(sec) ==
  LET subs == OccurrencesOf(sec, "sec")
  IN UNION {{subs[i]} \cup NestedSections(subs[i]) : i \in 1..Len(subs)}

\* the title and the paragraphs of a section node of the pool
TitleOf(sec) == IF HasKey(sec, "title") THEN Field(sec, "title").str ELSE ""
ParagraphsOf(sec) ==
  LET ps == OccurrencesOf(sec, "p") IN {ps[i].str : i \in 1..Len(ps)}

\* where t occurs in s
PositionsOf(s, t) == {i \in 1..(Len(s) - Len(t) + 1) : SubSeq(s, i, i + Len(t) - 1) = t}

PluralsOf(w) ==
  {w \o "s", w \o "es"}
  \cup (IF Len(w) > 1 /\ SubSeq(w, Len(w), Len(w)) = "y"
        THEN {SubSeq(w, 1, Len(w) - 1) \o "ies"} ELSE {})

StrippedWords ==
  UNION {{dosageForms[i]} \cup PluralsOf(dosageForms[i]) : i \in 1..Len(dosageForms)}
  \cup {salts[i] : i \in 1..Len(salts)}

\* a word without the punctuation the clean-up removes
Unpunctuated(w) == RemoveCharsRange(w, 1, Len(w), {",", "(", ")"})

\* the name the rules give, word by word: lower case, cut at the first
\* " - ", the dosage-form words with their plurals and the salt words left
\* out, punctuation removed, single spaces
NameByRules(title) ==
  LET lower == ToLowerCase(title)
      cut == IF Includes(lower, " - ") THEN SubSeq(lower, 1, IndexOf(lower, " - ")) ELSE lower
      words == Split(cut, " ")
      bare == [i \in 1..Len(words) |-> Unpunctuated(words[i])]
      kept == SelectSeq(bare, LAMBDA w : w # "" /\ w \notin StrippedWords)
  IN Join(kept, " ")

\* C23: normalizeDrugName cuts the title at the first manufacturer separator,
\* strips the dosage-form words, plural forms included, and the salt words
\* as whole words only, then collapses punctuation and whitespace; the two
\* documented titles give "metformin" and "atorvastatin", and a listed word
\* inside a longer word stays
C23_NormalizeByRules ==
  normDone =>
    /\ normalizedName = NameByRules(drugTitle)
    /\ drugTitle = "METFORMIN HYDROCHLORIDE tablet - TEVA PHARMACEUTICALS USA"
         => normalizedName = "metformin"
    /\ drugTitle = "ATORVASTATIN CALCIUM tablets" => normalizedName = "atorvastatin"
    /\ drugTitle = "Gelatin sodiumate gelcaps" => normalizedName = "gelatin sodiumate gelcaps"

(***************************************************************************)
(* Claims about LRUCache (SpecLru)                                         *)
(***************************************************************************)
\* the keys the cache holds
LruKeysHeld == {lruCache[i].key : i \in 1..Len(lruCache)}

\* this step is a call of get, set or clear: time stands still and the call
\* is the one lruLast names afterwards
LruStepIs(op) == lruLast'.op = op /\ lruNow' = lruNow

\* set on a key that is present leaves the set of keys as it was
SetOfPresentKeyKeepsKeys ==
  (LruStepIs("set") /\ lruLast'.key \in LruKeysHeld) =>
    {lruCache'[i].key : i \in 1..Len(lruCache')} = LruKeysHeld

\* C26: after any sequence of get, set and clear on a cache with
\* maxEntries >= 1 the size never exceeds maxEntries, and a set on a key
\* that is present evicts no other key
C26_SizeBounded ==
  /\ [](Len(lruCache) <= lruMax)
  /\ [][SetOfPresentKeyKeepsKeys]_vars

\* a full cache of two entries after a set on one of its keys
C26_Witness ==
  /\ lruLast.op = "set"
  /\ lruLast.present
  /\ lruLast.evicted = <<>>
  /\ lruMax = 2
  /\ Len(lruCache) = 2

\* the key held by the cache whose last touch is the oldest
LeastRecentlyTouched ==
  lruTouches[CHOOSE i \in 1..Len(lruTouches) :
               /\ lruTouches[i] \in LruKeysHeld
               /\ \A j \in 1..(i - 1) : lruTouches[j] \notin LruKeysHeld]

\* set of a new key into a full cache evicts exactly the entry least
\* recently touched and keeps the new one
SetOfNewKeyEvictsOldest ==
  (LruStepIs("set") /\ lruLast'.key \notin LruKeysHeld /\ Len(lruCache) = lruMax) =>
    /\ {lruCache'[i].key : i \in 1..Len(lruCache')}
         = (LruKeysHeld \ {LeastRecentlyTouched}) \cup {lruLast'.key}
    /\ Len(lruCache') = Len(lruCache)
    /\ lruLast'.evicted = <<LeastRecentlyTouched>>
    /\ \A i \in 1..Len(lruCache') :
         lruCache'[i].key # lruLast'.key => \E j \in 1..Len(lruCache) : lruCache[j] = lruCache'[i]

\* C27: when set inserts a new key into a full cache, exactly one entry is
\* evicted, the one least recently touched by a set or by a get that hit;
\* the entry just set is never the victim
C27_EvictsLeastRecentlyTouched == [][SetOfNewKeyEvictsOldest]_vars

\* k1 and k2 were set in this order, a get hit k1, then k3 was set: k2 went
C27_Witness ==
  /\ lruLast.op = "set"
  /\ lruLast.key = "k3"
  /\ lruLast.evicted = <<"k2">>
  /\ lruTouches = <<"k2", "k1", "k3">>
  /\ LruKeysHeld = {"k1", "k3"}

\* get returns the value of an entry no older than its ttl and leaves the
\* entry as it is; an older entry is removed and undefined is returned
GetHonoursTtl ==
  LruStepIs("get") =>
    LET key == lruLast'.key
    IN IF key \notin LruKeysHeld THEN lruLast'.result = <<>>
       ELSE LET entry == lruCache[CHOOSE i \in 1..Len(lruCache) : lruCache[i].key = key]
            IN IF lruNow - entry.timestamp > entry.ttl
               THEN /\ lruLast'.result = <<>>
                    /\ \A i \in 1..Len(lruCache') : lruCache'[i].key # key
               ELSE /\ lruLast'.result = <<entry.value>>
                    /\ \E i \in 1..Len(lruCache') : lruCache'[i] = entry

\* set stamps the entry with the time of the call
SetStampsNow ==
  LruStepIs("set") =>
    \E i \in 1..Len(lruCache') :
      /\ lruCache'[i].key = lruLast'.key
      /\ lruCache'[i].timestamp = lruNow

\* C28: get never returns a value whose age since its last set exceeds its
\* ttl: it returns undefined and removes the entry; a get that hits leaves
\* timestamp and ttl unchanged
C28_ExpiryNotExtendedByReads == [][GetHonoursTtl /\ SetStampsNow]_vars

\* a get on a key that was held found its entry too old and removed it
C28_Witness ==
  /\ lruLast.op = "get"
  /\ lruLast.present
  /\ lruLast.result = <<>>
  /\ lruLast.key \notin LruKeysHeld
  /\ lruCache # <<>>

(***************************************************************************)
(* Claims about resolveLoincCodes (SpecLoinc)                              *)
(***************************************************************************)
\* the code LOINC_MAP gives for one of its keys
OwnCode(name) == LOINC_MAP[CHOOSE i \in 1..Len(LOINC_MAP) : LOINC_MAP[i][1] = name][2]

\* C25: a request that names keys of LOINC_MAP resolves each name to that
\* name's own code: 'contraindications' to 34070-3, 'dosage forms' to 43678-2
C25_NameResolvesToOwnCode ==
  (loincDone /\ loincSections.defined /\ Len(loincSections.list) > 0) =>
    /\ resolvedCodes.defined
    /\ resolvedCodes.list = [i \in 1..Len(loincSections.list) |-> OwnCode(loincSections.list[i])]

(***************************************************************************)
(* Claims about the cache-guarded fetch wrappers (SpecFetch).               *)
(***************************************************************************)
\* C24: any two requests the eMC client issues are at least REQUEST_DELAY_MS
\* (1000 ms) apart, also when searchEmc calls of one batch overlap.
C24_EmcRequestsSpaced ==
  \A i, j \in 1..Len(issued) :
    i < j /\ issued[i].module = "emc" /\ issued[j].module = "emc" =>
      issued[j].at - issued[i].at >= REQUEST_DELAY_MS_EMC

\* a step in which the fetch of a call fails
FetchFailure ==
  /\ Len(calls') = Len(calls)
  /\ \E i \in 1..Len(calls) : calls'[i].failed /\ ~calls[i].failed

\* C29: in every fetch wrapper (searchEmc, fetchSmpcHtml, efetch,
\* searchByIndication) a failed fetch leaves the cache unchanged: no entry is
\* written for the request.
C29_FailedFetchLeavesCache == [][FetchFailure => cache' = cache]_vars

\* C30: for one cache key of searchEmc at most one fetch is issued while its
\* entry is live and not evicted (no entry expires or is evicted within the
\* times and sizes explored), for calls one after the other and for overlapping
\* calls: a second fetch for the key is issued only after the first has failed.
C30_OneFetchPerLiveKey ==
  \A i, j \in 1..Len(issued) :
    /\ i < j
    /\ calls[issued[i].call].wrapper = "searchEmc"
    /\ issued[i].cacheKey = issued[j].cacheKey
    => calls[issued[i].call].pc = "rejected"

====
